---- MODULE Spec2Model ----
(***************************************************************************)
(* Model of the TierIV ODD mapper backend: junction classification         *)
(* (app/service/junction), the conflict rule table (app/models.py) and the *)
(* ODD compliance filter with the longest-network extractor                *)
(* (app/service/network/network_task.py).                                  *)
(*                                                                         *)
(* Python values are represented as follows.                               *)
(*   None / Optional[x]   the empty sequence <<>> / the sequence <<x>>     *)
(*   an OSM tag value     a record [list, vals]: a string s is             *)
(*                        [list |-> FALSE, vals |-> <<s>>], a list of      *)
(*                        strings is [list |-> TRUE, vals |-> <<...>>]     *)
(*   a coordinate         a pair <<x, y>> of integers                      *)
(*   an angle in degrees  the pair [dot, nsq] of the dot product and the   *)
(*                        product of the squared norms of the two vectors  *)
(*                        it is the arccos of; comparisons with a          *)
(*                        threshold are decided exactly on the cosines     *)
(*   a JSON value         a record [t, s, n, items], see "JSON values"     *)
(***************************************************************************)
EXTENDS Integers, Sequences, FiniteSets, TLC

VARIABLES
    G,                \* local_cache 'graph', seen from one core node
    req,              \* local_cache 'request' (WebRequest)
    junction_coll,    \* mongo.db.junction: the document stored for the node's coordinates
    network_feature,  \* mongo.db.network_feature: the 'features' set of the node's document
    ret,              \* outcome of the last /junction run for the node
    conflict_counter, \* Counter[JuncConflict] of count_pair_interaction
    lookup,           \* the last get_conflict_type call and its result
    request_json,     \* body of the POST /network request: odd_type, odd_param
    coll_feature,     \* mongo.db.network_feature as /network reads it
    coll_primary,     \* mongo.db.network_primary
    incompliant_nodes, \* the set network_odd_compliance built
    compliant_geom,   \* the list it handed to get_longest_network
    resp,             \* what the last /network run returned
    graph,            \* local_cache 'graph': node id -> the node with its incident edges
    graph_core_nodes, \* local_cache 'graph_core_nodes': list of node ids
    db_junction,      \* mongo.db.junction: documents keyed by coordinate
    db_network_feature, \* mongo.db.network_feature: documents keyed by node id
    batch,            \* outcome of the last analyze_all_nodes call
    runs,             \* number of analyze_all_nodes calls so far
    cache,            \* local_cache: key -> None or the query the value was built for
    query_resp,       \* what the last /query request returned
    db_road_feature,  \* mongo.db.road_feature: documents keyed by node id
    extracted,        \* the last feature extractor that ran and the node ids it identified
    junction_record,  \* what analyze_node computed for a node: junction type and Counter
    exported,         \* the feature analyze_node added to the node's network_feature document
    revalidated,      \* properties of the exported document after a second model_validate
    read_back,        \* junction type and Counter as check_single_junction_odd_incompliance reads them
    node_edges,       \* the edges of the graph that start or end at the node, in adjacency order
    leg_params,       \* junc_nbr_pos_threshold and junc_right_hand_traffic of the request
    legs,             \* None, or the list get_legs returned
    edge_data,        \* the data attributes of one edge: width, est_width and lane tags
    default_lane_width, \* lane width of the request, in units of 0.1 mm
    parsed_lanes,     \* None, or what _parse_lane_data returned for edge_data
    parsed_width,     \* None, or what _parse_edge_width returned for edge_data
    pending,          \* the leg pairs the loop of analyze_node has still to count
    counted           \* the leg pairs counted so far, each with the tallies it added

varsJ == <<G, req, junction_coll, network_feature, ret>>
varsC == <<conflict_counter, lookup>>
varsN == <<request_json, coll_feature, coll_primary, incompliant_nodes, compliant_geom, resp>>
varsB == <<graph, graph_core_nodes, db_junction, db_network_feature, batch, runs>>
varsQ == <<cache, query_resp>>
varsE == <<db_road_feature, extracted>>
varsR == <<junction_record, exported, revalidated, read_back>>
varsL == <<node_edges, leg_params, legs, pending, counted>>
varsP == <<edge_data, default_lane_width, parsed_lanes, parsed_width>>
varsX == <<varsR, varsL, varsP>>
vars == <<varsJ, varsC, varsN, varsB, varsQ, varsE, varsX>>

None == <<>>
Some(x) == <<x>>

\* ------------------------------------------------------------------ bounds
MaxEdges == 4
MaxTagEdges == 2
MaxTally == 2
MaxCount == 1
MaxLines == 3
MaxNodes == 2
MaxRuns == 2
MaxQueries == 2
MaxLegEdges == 3

\* ------------------------------------------------------ program constants
JuncTyAngleThresholdDefault == 110
JuncNbrPosThresholdDefault == 30

\* ------------------------------------------------------------ JSON values
\* A value of an ODD or metadata dict: the record [t, s, n, items], where t
\* is its Python type, s the text of a str (or the member name of an Enum),
\* n the number of an int/float (1/0 for True/False) and items the elements
\* of a list.  Absent marks a key the dict does not have.
PyVal(t, s, n, items) == [t |-> t, s |-> s, n |-> n, items |-> items]
Absent == PyVal("absent", "", 0, <<>>)
PyNone == PyVal("none", "", 0, <<>>)
PyStr(s) == PyVal("str", s, 0, <<>>)
PyBool(b) == PyVal("bool", "", IF b THEN 1 ELSE 0, <<>>)
PyNum(n) == PyVal("num", "", n, <<>>)
PyEnum(name) == PyVal("enum", name, 0, <<>>)
PyList(items) == PyVal("list", "", 0, items)

IsList(a) == a.t = "list"

\* a == b for two non-list values: strings by text, bool and numbers by
\* number (True == 1), an Enum member only with the same member
ScalarEq(a, b) ==
    CASE a.t = "str" /\ b.t = "str" -> a.s = b.s
      [] a.t \in {"bool", "num"} /\ b.t \in {"bool", "num"} -> a.n = b.n
      [] a.t = "none" /\ b.t = "none" -> TRUE
      [] a.t = "enum" /\ b.t = "enum" -> a.s = b.s
      [] OTHER -> FALSE

\* a == b: lists element by element, a list never equals a non-list
PyEq(a, b) ==
    IF IsList(a) /\ IsList(b)
    THEN /\ Len(a.items) = Len(b.items)
         /\ \A i \in 1..Len(a.items) : ScalarEq(a.items[i], b.items[i])
    ELSE IF IsList(a) \/ IsList(b) THEN FALSE
    ELSE ScalarEq(a, b)

\* a in b for two texts: the texts that occur are contained in one another
\* only when they are equal
IsSubstring(a, b) == a = "" \/ a = b

\* a in c: membership in a list, containment in a str
PyIn(a, c) ==
    IF c.t = "str" THEN a.t = "str" /\ IsSubstring(a.s, c.s)
    ELSE \E i \in 1..Len(c.items) : PyEq(a, c.items[i])

\* bool(a)
PyTruthy(a) ==
    CASE a.t = "str" -> a.s # ""
      [] a.t \in {"bool", "num"} -> a.n # 0
      [] a.t = "list" -> a.items # <<>>
      [] a.t = "enum" -> TRUE
      [] OTHER -> FALSE

\* d.get(key, default)
Get(d, key, default) == IF d[key].t = "absent" THEN default ELSE d[key]

\* The keys an ODD dict is read at, and the dict with the given entries
OddKeys ==
    {"junction_type", "junction_conflict", "highway_type", "lane_markings",
     "oneway", "is_major_road", "speed_limit", "lane_width",
     "school_zone", "parking_lot", "traffic_signals"}

OddOf(entries) == [k \in OddKeys |-> IF k \in DOMAIN entries THEN entries[k] ELSE Absent]

\* WebRequest.odd as the model defines it
DefaultOdd ==
    OddOf("junction_type" :> PyList(<<PyStr("ALL")>>)
          @@ "junction_conflict" :> PyList(<<PyStr("ALL")>>))

\* ------------------------------------------------------------- enumerations
JunctionType ==
    {"ROUNDABOUT", "CIRCULAR", "JUGHANDLE",
     "MINI_ROUNDABOUT", "TURNING_CIRCLE", "TURNING_LOOP", "MOTORWAY_JUNCTION",
     "ISLAND", "PASSING_PLACE",
     "T_JUNCTION", "Y_JUNCTION", "CROSSROAD"}

\* ------------------------------------------------------------------- tags
NoTag == [list |-> FALSE, vals |-> <<>>]
Str(s) == [list |-> FALSE, vals |-> <<s>>]
Lst(q) == [list |-> TRUE, vals |-> q]

\* Python truthiness of a tag value: None, '' and [] are falsy
Truthy(raw) == raw.vals # <<>>

\* raw.replace(':', '_').upper() on the tag strings the model draws from
NormalizeTag(s) ==
    CASE s = "roundabout"      -> "ROUNDABOUT"
      [] s = "circular"        -> "CIRCULAR"
      [] s = "jughandle"       -> "JUGHANDLE"
      [] s = "mini_roundabout" -> "MINI_ROUNDABOUT"
      [] s = "turning_circle"  -> "TURNING_CIRCLE"
      [] s = "Turning:Loop"    -> "TURNING_LOOP"
      [] s = "traffic_signals" -> "TRAFFIC_SIGNALS"
      [] s = "crossing"        -> "CROSSING"
      [] s = "yes"             -> "YES"
      [] OTHER                 -> s

\* ------------------------------------------------------------ the graph
\* G = [node: [xy, junction, highway], edges: Seq([nbr, dir, junction])].
\* A neighbour is named by its coordinate; dir is "out" for an edge
\* node -> nbr and "in" for an edge nbr -> node.  The sequence order is the
\* adjacency order networkx iterates in (edges of one neighbour adjacent).
OutEdges(g) == SelectSeq(g.edges, LAMBDA e : e.dir = "out")
InEdges(g) == SelectSeq(g.edges, LAMBDA e : e.dir = "in")

RECURSIVE Dedup(_, _)
Dedup(s, seen) ==
    IF s = <<>> THEN <<>>
    ELSE IF Head(s) \in seen THEN Dedup(Tail(s), seen)
         ELSE <<Head(s)>> \o Dedup(Tail(s), seen \cup {Head(s)})

\* list(G.to_undirected().neighbors(node_id)): the distinct neighbours
UndirectedNeighbors(g) ==
    Dedup([i \in 1..Len(g.edges) |-> g.edges[i].nbr], {})

\* ----------------------------------------------------- _calculate_angle
\* cos(thr) for the thresholds the model draws from, as sign * sqrt(num/den)
CosOf(thr) ==
    CASE thr = 60  -> [sign |-> 1,  num |-> 1,     den |-> 4]
      [] thr = 90  -> [sign |-> 0,  num |-> 0,     den |-> 1]
      [] thr = 110 -> [sign |-> -1, num |-> 11698, den |-> 100000]
      [] thr = 120 -> [sign |-> -1, num |-> 1,     den |-> 4]

\* angle <= thr, for angle = arccos(dot / sqrt(nsq)) in degrees
AngleLeq(a, thr) ==
    LET c == CosOf(thr) IN
    IF c.sign >= 0
    THEN a.dot >= 0 /\ a.dot * a.dot * c.den >= c.num * a.nsq
    ELSE a.dot >= 0 \/ a.dot * a.dot * c.den <= c.num * a.nsq

_calculate_angle(p1, p2, p3) ==
    LET vec1 == <<p2[1] - p1[1], p2[2] - p1[2]>>
        vec2 == <<p3[1] - p2[1], p3[2] - p2[2]>>
        dot_product == vec1[1] * vec2[1] + vec1[2] * vec2[2]
        norm1sq == vec1[1] * vec1[1] + vec1[2] * vec1[2]
        norm2sq == vec2[1] * vec2[1] + vec2[2] * vec2[2]
    IN [dot |-> dot_product, nsq |-> norm1sq * norm2sq]

\* ------------------------------------------------------ classification
\* A classifier returns [raised, jt]: raised when the Python code throws,
\* jt = None or Some(junction type name).
Returned(jt) == [raised |-> FALSE, jt |-> jt]
Raised == [raised |-> TRUE, jt |-> None]

RECURSIVE ScanEdgeTags(_)
ScanEdgeTags(es) ==
    IF es = <<>> THEN Returned(None)
    ELSE LET raw == Head(es).junction IN
         IF ~Truthy(raw) THEN ScanEdgeTags(Tail(es))
         ELSE IF raw.list THEN Raised          \* list has no .replace
         ELSE IF NormalizeTag(raw.vals[1]) \in JunctionType
              THEN Returned(Some(NormalizeTag(raw.vals[1])))
              ELSE ScanEdgeTags(Tail(es))

\* G.edges([node_id]) of a MultiDiGraph yields the out-edges of node_id
classify_edge_tag(g) == ScanEdgeTags(OutEdges(g))

RECURSIVE ScanNodeTags(_)
ScanNodeTags(tags) ==
    IF tags = <<>> THEN None
    ELSE IF NormalizeTag(Head(tags)) \in JunctionType
         THEN Some(NormalizeTag(Head(tags)))
         ELSE ScanNodeTags(Tail(tags))

classify_node_tag(g) ==
    LET raw == IF g.node.junction # NoTag THEN g.node.junction ELSE g.node.highway
    IN IF raw = NoTag THEN Returned(None)
       ELSE Returned(ScanNodeTags(raw.vals))

\* Variant of classify_node_other with the CROSSROAD bound off by one
classify_node_other_deg5(g, angle_threshold) ==
    LET nbrs == UndirectedNeighbors(g)
        deg == Len(nbrs)
        angles == [i \in 1..3 |-> _calculate_angle(nbrs[i], g.node.xy, nbrs[(i % 3) + 1])]
    IN IF deg <= 2 THEN Returned(None)
       ELSE IF deg >= 5 THEN Returned(Some("CROSSROAD"))
       ELSE IF \A i \in 1..3 : AngleLeq(angles[i], angle_threshold)
            THEN Returned(Some("T_JUNCTION"))
            ELSE Returned(Some("Y_JUNCTION"))

classify_node_other(g, angle_threshold) ==
    LET nbrs == UndirectedNeighbors(g)
        deg == Len(nbrs)
        angles == [i \in 1..3 |-> _calculate_angle(nbrs[i], g.node.xy, nbrs[(i % 3) + 1])]
    IN IF deg <= 2 THEN Returned(None)
       ELSE IF deg >= 4 THEN Returned(Some("CROSSROAD"))
       ELSE IF \A i \in 1..3 : AngleLeq(angles[i], angle_threshold)
            THEN Returned(Some("T_JUNCTION"))
            ELSE Returned(Some("Y_JUNCTION"))

\* jt = classify_edge_tag(..) or classify_node_tag(..) or classify_node_other(..)
Classify(g, angle_threshold) ==
    LET e == classify_edge_tag(g) IN
    IF e.raised \/ e.jt # None THEN e
    ELSE LET n == classify_node_tag(g) IN
         IF n.raised \/ n.jt # None THEN n
         ELSE classify_node_other(g, angle_threshold)

\* ------------------------------------------------------- _parse_lane_data
\* A tag value of an edge: absent, a string or a list of strings.  A string
\* is the sequence of its tokens: turn codes, numbers and the separators
\* "|" and ";".
AbsentTag == [kind |-> "absent", toks |-> <<>>, items |-> <<>>]
StrTag(toks) == [kind |-> "str", toks |-> toks, items |-> <<>>]
ListTag(items) == [kind |-> "list", toks |-> <<>>, items |-> items]

\* not tag_raw: the key is missing (default ''), the string or the list is empty
Falsy(tag) ==
    \/ tag.kind = "absent"
    \/ tag.kind = "str" /\ tag.toks = <<>>
    \/ tag.kind = "list" /\ tag.items = <<>>

LaneTurn ==
    {"THROUGH", "LEFT", "SLIGHT_LEFT", "SHARP_LEFT", "RIGHT", "SLIGHT_RIGHT",
     "SHARP_RIGHT", "REVERSE", "MERGE_TO_LEFT", "MERGE_TO_RIGHT"}

\* direction.strip().upper() for the turn codes of the model
StripUpper(tok) ==
    CASE tok = "through" -> "THROUGH"
      [] tok = "left" -> "LEFT"
      [] tok = "right" -> "RIGHT"
      [] tok = "reverse" -> "REVERSE"
      [] tok = "slight_right" -> "SLIGHT_RIGHT"
      [] tok = "none" -> "NONE"
      [] OTHER -> tok

\* len() of a token as a Python string
TokenLen(tok) ==
    CASE tok = "through" -> 7
      [] tok = "left" -> 4
      [] tok = "right" -> 5
      [] tok = "reverse" -> 7
      [] tok = "slight_right" -> 12
      [] tok = "none" -> 4
      [] OTHER -> 1

RECURSIVE StrLen(_)
StrLen(toks) == IF toks = <<>> THEN 0 ELSE TokenLen(Head(toks)) + StrLen(Tail(toks))

\* s.split(sep): the pieces between the separators; '' and a trailing
\* separator give an empty piece
RECURSIVE Split(_, _)
Split(toks, sep) ==
    IF \A i \in 1..Len(toks) : toks[i] # sep THEN <<toks>>
    ELSE LET k == CHOOSE i \in 1..Len(toks) :
                      toks[i] = sep /\ \A j \in 1..(i - 1) : toks[j] # sep
         IN <<SubSeq(toks, 1, k - 1)>> \o Split(SubSeq(toks, k + 1, Len(toks)), sep)

\* The LaneTurn members named in one lane string
TurnsOfLane(lane_str) ==
    LET directions == Split(lane_str, ";")
    IN {StripUpper(directions[i][1]) :
            i \in {i \in 1..Len(directions) :
                      Len(directions[i]) = 1 /\ StripUpper(directions[i][1]) \in LaneTurn}}

\* int(x) of a lane-count string: the number, or None for ValueError
IntOf(toks) ==
    IF Len(toks) = 1 /\ toks[1] \in {"0", "1", "2", "3"}
    THEN Some(CASE toks[1] = "0" -> 0 [] toks[1] = "1" -> 1
                [] toks[1] = "2" -> 2 [] toks[1] = "3" -> 3)
    ELSE None

_parse_lane_data(data) ==
    LET side == IF data.reversed THEN "backward" ELSE "forward"
        tag_raw == data.turn_lanes[side]
        lanes == IF Falsy(tag_raw) THEN <<>>
                 ELSE IF tag_raw.kind = "list" THEN tag_raw.items
                 ELSE Split(tag_raw.toks, "|")
        named == UNION {TurnsOfLane(lanes[i]) : i \in 1..Len(lanes)}
        turns == IF named = {} THEN {"THROUGH"} ELSE named
        lanes_val == data.lanes[side]
        first == IF lanes_val.items = <<>> THEN None ELSE IntOf(lanes_val.items[1])
        single == IntOf(lanes_val.toks)
    IN IF lanes_val.kind = "list"
       THEN IF ~Falsy(tag_raw)
            THEN [turns |-> turns, estimate |-> FALSE,
                  num_lanes |-> IF tag_raw.kind = "list" THEN Len(tag_raw.items)
                                ELSE StrLen(tag_raw.toks)]
            ELSE [turns |-> turns, estimate |-> TRUE,
                  num_lanes |-> IF first = None THEN 1 ELSE first[1]]
       ELSE IF lanes_val.kind = "str"
       THEN IF single = None
            THEN [turns |-> turns, estimate |-> TRUE, num_lanes |-> 1]
            ELSE [turns |-> turns, estimate |-> FALSE, num_lanes |-> single[1]]
       ELSE [turns |-> turns, estimate |-> TRUE, num_lanes |-> 1]

\* ------------------------------------------------------------ edge width
\* Lengths are integers in units of 0.1 mm, so that 1 m = 10000, 1 ft = 3048
\* and 1 in = 254 are exact
Digits == {"0", "1", "2", "3", "10", "16"}
Numeric == Digits \cup {"3.5"}
Letters == {"m", "meter", "meters", "km", "kilometer", "kilometre", "mi", "mile",
            "miles", "ft", "feet", "in", "inch", "inches", "wide", "lanes"}

\* float(num) of a numeric token
FloatOf(tok) ==
    CASE tok = "0" -> 0
      [] tok = "1" -> 10000
      [] tok = "2" -> 20000
      [] tok = "3" -> 30000
      [] tok = "3.5" -> 35000
      [] tok = "10" -> 100000
      [] tok = "16" -> 160000

\* _convert_to_meters of str(val).strip().lower(), the string given as its
\* tokens (whitespace between tokens dropped); str() of a list is no number
_convert_to_meters(val) ==
    LET s == val.toks IN
    IF val.kind # "str" THEN 0
    ELSE IF Len(s) >= 3 /\ s[1] \in Digits /\ s[2] = "'" /\ s[3] \in Digits
    THEN (FloatOf(s[1]) * 3048) \div 10000 + (FloatOf(s[3]) * 254) \div 10000
    ELSE IF Len(s) >= 2 /\ s[1] \in Numeric /\ s[2] \in Letters
                /\ s[2] \in {"m", "meter", "meters", "km", "kilometer", "kilometre",
                             "mi", "mile", "miles", "ft", "feet", "in", "inch", "inches"}
    THEN LET f == FloatOf(s[1]) IN
         CASE s[2] \in {"m", "meter", "meters"} -> f
           [] s[2] \in {"km", "kilometer", "kilometre"} -> f * 1000
           [] s[2] \in {"mi", "mile", "miles"} -> (f * 1609344) \div 1000
           [] s[2] \in {"ft", "feet"} -> (f * 3048) \div 10000
           [] s[2] \in {"in", "inch", "inches"} -> (f * 254) \div 10000
    ELSE IF Len(s) = 1 /\ s[1] \in Numeric THEN FloatOf(s[1])
    ELSE 0

\* Variant of _parse_edge_width whose step c) does not ask for parsed_est
_parse_edge_width_unflagged(data, lane_width) ==
    IF data.width.kind # "absent"
    THEN [width |-> _convert_to_meters(data.width), is_estimate |-> FALSE]
    ELSE IF data.est_width.kind # "absent"
    THEN [width |-> _convert_to_meters(data.est_width), is_estimate |-> TRUE]
    ELSE LET lanes_val == data.lanes_tag
             a == IF lanes_val.kind = "str" /\ IntOf(lanes_val.toks) # None
                     /\ IntOf(lanes_val.toks)[1] >= 1
                  THEN IntOf(lanes_val.toks) ELSE None
             parsed == _parse_lane_data(data)
             b == IF a # None THEN a
                  ELSE IF parsed.num_lanes >= 1 THEN Some(parsed.num_lanes) ELSE None
             c == IF b = None /\ lanes_val.kind = "list"
                     /\ lanes_val.items # <<>> /\ IntOf(lanes_val.items[1]) # None
                     /\ IntOf(lanes_val.items[1])[1] >= 1
                  THEN IntOf(lanes_val.items[1]) ELSE b
             num_lanes == IF c = None \/ c[1] < 1 THEN 1 ELSE c[1]
         IN [width |-> lane_width * num_lanes, is_estimate |-> TRUE]

\* _parse_edge_width: [width, is_estimate]
_parse_edge_width(data, lane_width) ==
    IF data.width.kind # "absent"
    THEN [width |-> _convert_to_meters(data.width), is_estimate |-> FALSE]
    ELSE IF data.est_width.kind # "absent"
    THEN [width |-> _convert_to_meters(data.est_width), is_estimate |-> TRUE]
    ELSE LET lanes_val == data.lanes_tag
             \* a) single int or numeric string
             a == IF lanes_val.kind = "str" /\ IntOf(lanes_val.toks) # None
                     /\ IntOf(lanes_val.toks)[1] >= 1
                  THEN IntOf(lanes_val.toks) ELSE None
             \* b) use parse_lane_data
             parsed == _parse_lane_data(data)
             b == IF a # None THEN a
                  ELSE IF parsed.num_lanes >= 1 THEN Some(parsed.num_lanes) ELSE None
             \* c) if parsed_estimate and original lanes was a list
             c == IF b = None /\ lanes_val.kind = "list" /\ parsed.estimate
                     /\ lanes_val.items # <<>> /\ IntOf(lanes_val.items[1]) # None
                     /\ IntOf(lanes_val.items[1])[1] >= 1
                  THEN IntOf(lanes_val.items[1]) ELSE b
             \* d) final fallback
             num_lanes == IF c = None \/ c[1] < 1 THEN 1 ELSE c[1]
         IN [width |-> lane_width * num_lanes, is_estimate |-> TRUE]

\* ------------------------------------------------------ conflict lookup
Direction == {"THRU", "TURN", "CROSS", "REVERSE"}
NbrPosition == {"OPP", "NEAR", "FAR"}
JuncConflict == {"INTERSECT", "MERGE", "NO_CONFLICT"}

Rule(this_move, other_move, nbr_pos, conflict) ==
    [this_move |-> this_move, other_move |-> other_move,
     nbr_pos |-> nbr_pos, conflict |-> conflict]

\* WebRequest.junc_conflict_classifier, the default rule table, in order
junc_conflict_classifier ==
    <<
       Rule("THRU",    "THRU",    "OPP",  "NO_CONFLICT"),
       Rule("THRU",    "THRU",    "NEAR", "INTERSECT"),
       Rule("THRU",    "THRU",    "FAR",  "INTERSECT"),
       Rule("THRU",    "TURN",    "OPP",  "NO_CONFLICT"),
       Rule("THRU",    "TURN",    "NEAR", "MERGE"),
       Rule("THRU",    "TURN",    "FAR",  "NO_CONFLICT"),
       Rule("THRU",    "CROSS",   "OPP",  "INTERSECT"),
       Rule("THRU",    "CROSS",   "NEAR", "INTERSECT"),
       Rule("THRU",    "CROSS",   "FAR",  "MERGE"),
       Rule("THRU",    "REVERSE", "OPP",  "MERGE"),
       Rule("THRU",    "REVERSE", "NEAR", "INTERSECT"),
       Rule("THRU",    "REVERSE", "FAR",  "INTERSECT"),
       Rule("TURN",    "THRU",    "OPP",  "NO_CONFLICT"),
       Rule("TURN",    "THRU",    "NEAR", "NO_CONFLICT"),
       Rule("TURN",    "THRU",    "FAR",  "MERGE"),
       Rule("TURN",    "TURN",    "OPP",  "NO_CONFLICT"),
       Rule("TURN",    "TURN",    "NEAR", "NO_CONFLICT"),
       Rule("TURN",    "TURN",    "FAR",  "NO_CONFLICT"),
       Rule("TURN",    "CROSS",   "OPP",  "MERGE"),
       Rule("TURN",    "CROSS",   "NEAR", "NO_CONFLICT"),
       Rule("TURN",    "CROSS",   "FAR",  "NO_CONFLICT"),
       Rule("TURN",    "REVERSE", "OPP",  "NO_CONFLICT"),
       Rule("TURN",    "REVERSE", "NEAR", "MERGE"),
       Rule("TURN",    "REVERSE", "FAR",  "NO_CONFLICT"),
       Rule("CROSS",   "THRU",    "OPP",  "INTERSECT"),
       Rule("CROSS",   "THRU",    "NEAR", "MERGE"),
       Rule("CROSS",   "THRU",    "FAR",  "INTERSECT"),
       Rule("CROSS",   "TURN",    "OPP",  "MERGE"),
       Rule("CROSS",   "TURN",    "NEAR", "NO_CONFLICT"),
       Rule("CROSS",   "TURN",    "FAR",  "NO_CONFLICT"),
       Rule("CROSS",   "CROSS",   "OPP",  "INTERSECT"),
       Rule("CROSS",   "CROSS",   "NEAR", "INTERSECT"),
       Rule("CROSS",   "CROSS",   "FAR",  "INTERSECT"),
       Rule("CROSS",   "REVERSE", "OPP",  "INTERSECT"),
       Rule("CROSS",   "REVERSE", "NEAR", "INTERSECT"),
       Rule("CROSS",   "REVERSE", "FAR",  "MERGE"),
       Rule("REVERSE", "THRU",    "OPP",  "MERGE"),
       Rule("REVERSE", "THRU",    "NEAR", "INTERSECT"),
       Rule("REVERSE", "THRU",    "FAR",  "INTERSECT"),
       Rule("REVERSE", "TURN",    "OPP",  "NO_CONFLICT"),
       Rule("REVERSE", "TURN",    "NEAR", "NO_CONFLICT"),
       Rule("REVERSE", "TURN",    "FAR",  "MERGE"),
       Rule("REVERSE", "CROSS",   "OPP",  "INTERSECT"),
       Rule("REVERSE", "CROSS",   "NEAR", "MERGE"),
       Rule("REVERSE", "CROSS",   "FAR",  "INTERSECT"),
       Rule("REVERSE", "REVERSE", "OPP",  "INTERSECT"),
       Rule("REVERSE", "REVERSE", "NEAR", "INTERSECT"),
       Rule("REVERSE", "REVERSE", "FAR",  "INTERSECT")
    >>

\* Index of the first entry of the table that matches the triple, 0 if none
RECURSIVE FirstMatch(_, _, _, _, _)
FirstMatch(conflict_classifier, i, this_move, other_move, nbr_pos) ==
    IF i > Len(conflict_classifier) THEN 0
    ELSE IF /\ conflict_classifier[i].this_move = this_move
            /\ conflict_classifier[i].other_move = other_move
            /\ conflict_classifier[i].nbr_pos = nbr_pos
         THEN i
         ELSE FirstMatch(conflict_classifier, i + 1, this_move, other_move, nbr_pos)

\* Variant of get_conflict_type that matches the two movements crosswise
get_conflict_type_swapped(this_move, other_move, nbr_pos, conflict_classifier) ==
    LET i == FirstMatch(conflict_classifier, 1, other_move, this_move, nbr_pos) IN
    IF i > 0 THEN [conflict |-> conflict_classifier[i].conflict, entry |-> i]
    ELSE [conflict |-> "NO_CONFLICT", entry |-> 0]

\* get_conflict_type: [conflict, entry]; entry = 0 marks the fallback return
get_conflict_type(this_move, other_move, nbr_pos, conflict_classifier) ==
    LET i == FirstMatch(conflict_classifier, 1, this_move, other_move, nbr_pos) IN
    IF i > 0 THEN [conflict |-> conflict_classifier[i].conflict, entry |-> i]
    ELSE [conflict |-> "NO_CONFLICT", entry |-> 0]

Tallies == conflict_counter["INTERSECT"] + conflict_counter["MERGE"]
               + conflict_counter["NO_CONFLICT"]

\* One iteration of the product loop of count_pair_interaction: look the
\* pair of movements up and tally the result
CountCombination(this_move, other_move, nbr_pos) ==
    LET r == get_conflict_type(this_move, other_move, nbr_pos, junc_conflict_classifier)
    IN /\ Tallies < MaxTally
       /\ lookup' = [called |-> TRUE, this_move |-> this_move, other_move |-> other_move,
                     nbr_pos |-> nbr_pos, conflict |-> r.conflict, entry |-> r.entry]
       /\ conflict_counter' = [conflict_counter EXCEPT ![r.conflict] = @ + 1]
       /\ UNCHANGED <<varsJ, varsN, varsB, varsQ, varsE, varsX>>

NoLookup == [called |-> FALSE, this_move |-> "THRU", other_move |-> "THRU",
             nbr_pos |-> "OPP", conflict |-> "NO_CONFLICT", entry |-> 0]

NotCalled == [called |-> FALSE, value |-> None]

IdleN ==
    /\ request_json = [odd_type |-> Absent, odd_param |-> None]
    /\ coll_feature = <<>>
    /\ coll_primary = <<>>
    /\ incompliant_nodes = {}
    /\ compliant_geom = <<>>
    /\ resp = NotCalled

NoBatch == [ran |-> FALSE, raised |-> FALSE, results |-> <<>>]

IdleB ==
    /\ graph = <<>>
    /\ graph_core_nodes = <<>>
    /\ db_junction = <<>>
    /\ db_network_feature = <<>>
    /\ batch = NoBatch
    /\ runs = 0

CacheKeys == {"request", "query_key", "graph", "graph_core_nodes", "gdf"}

NoQueryResponse == [status |-> "", graph |-> None, core_nodes |-> None]

IdleQ ==
    /\ cache = [k \in CacheKeys |-> None]
    /\ query_resp = NoQueryResponse

NoExtractor == [extractor |-> "", nodes |-> <<>>]

IdleE ==
    /\ db_road_feature = <<>>
    /\ extracted = NoExtractor

NoRecord == [junction_type |-> "", ctr |-> <<>>]

IdleR ==
    /\ junction_record = NoRecord
    /\ exported = None
    /\ revalidated = None
    /\ read_back = None

IdleL ==
    /\ node_edges = <<>>
    /\ leg_params = [angle_threshold |-> JuncNbrPosThresholdDefault, right_lane_drive |-> TRUE]
    /\ legs = None
    /\ pending = <<>>
    /\ counted = <<>>

IdleP ==
    /\ edge_data = [reversed |-> FALSE]
    /\ default_lane_width = 0
    /\ parsed_lanes = None
    /\ parsed_width = None

IdleX == IdleR /\ IdleL /\ IdleP

IdleC ==
    /\ conflict_counter = [c \in JuncConflict |-> 0]
    /\ lookup = NoLookup

DefaultRequest ==
    [overwrite |-> TRUE, junc_ty_angle_threshold |-> JuncTyAngleThresholdDefault,
     odd |-> DefaultOdd]

IdleG ==
    /\ G = [node |-> [xy |-> <<0, 0>>, junction |-> NoTag, highway |-> NoTag], edges |-> <<>>]
    /\ junction_coll = None
    /\ network_feature = {}
    /\ ret = [ran |-> FALSE, raised |-> FALSE, doc |-> None]

IdleJ == IdleG /\ req = DefaultRequest

InitConflict == IdleJ /\ IdleC /\ IdleN /\ IdleB /\ IdleQ /\ IdleE /\ IdleX

NextConflict ==
    \E this_move \in Direction, other_move \in Direction, nbr_pos \in NbrPosition :
        CountCombination(this_move, other_move, nbr_pos)

SpecConflict == InitConflict /\ [][NextConflict]_vars

\* ------------------------------------------------------------ BaseExporter
\* BaseExporter._structure_properties: everything but feature_type moves
\* under 'metadata' unless a non-empty 'metadata' is already there
\* Variant of _structure_properties that always gathers the metadata anew
_structure_properties_regather(v) ==
    [feature_type |-> v.feature_type,
     metadata |-> [k \in DOMAIN v \ {"feature_type"} |-> v[k]]]

_structure_properties(v) ==
    LET metadata ==
            IF "metadata" \in DOMAIN v /\ v.metadata # None
            THEN v.metadata
            ELSE [k \in DOMAIN v \ {"feature_type"} |-> v[k]]
    IN [feature_type |-> v.feature_type, metadata |-> metadata]

\* ------------------------------------------------------------ analyze_node
\* Outcome of analyze_node: raised, or the returned doc (None or Some(doc))
\* with the operations it appended to ops_junc and ops_net.
NodeOutcome(raised, doc, ops_junc, ops_net) ==
    [raised |-> raised, doc |-> doc, ops_junc |-> ops_junc, ops_net |-> ops_net]

analyze_node(g, overwrite, junc_ty_angle_threshold, saved) ==
    IF ~overwrite /\ saved # None
    THEN NodeOutcome(FALSE, saved, None, Some(saved[1].properties))
    ELSE LET c == Classify(g, junc_ty_angle_threshold) IN
         IF c.raised THEN NodeOutcome(TRUE, None, None, None)
         ELSE IF c.jt = None THEN NodeOutcome(FALSE, None, None, None)
         ELSE LET properties == [feature_type |-> "junction",
                                 node_coords  |-> g.node.xy,
                                 junc_type    |-> c.jt[1]]
                  doc == [type |-> "Feature",
                          properties |-> _structure_properties(properties)]
              IN NodeOutcome(FALSE, Some(doc), Some(doc), Some(doc.properties))

\* analyze_all_nodes for the core node: analyze_node, then the two bulk
\* writes (ReplaceOne upsert into junction, $addToSet into network_feature).
\* An exception in analyze_node leaves both collections untouched.
AnalyzeAllNodes ==
    LET o == analyze_node(G, req.overwrite, req.junc_ty_angle_threshold, junction_coll)
    IN /\ ret' = [ran |-> TRUE, raised |-> o.raised, doc |-> o.doc]
       /\ junction_coll' = IF o.ops_junc # None THEN o.ops_junc ELSE junction_coll
       /\ network_feature' = IF o.ops_net # None
                             THEN network_feature \cup {o.ops_net[1]}
                             ELSE network_feature
       /\ UNCHANGED <<G, req>>
       /\ UNCHANGED <<varsC, varsN, varsB, varsQ, varsE, varsX>>

\* ------------------------------------------------- ODD compliance checks
AllList == PyList(<<PyStr("ALL")>>)

\* Variant of check_single_junction_odd_incompliance in which ALL does not
\* lift the junction-type restriction
check_single_junction_odd_incompliance_no_all(odd, metadata) ==
    LET odd_junction_types == Get(odd, "junction_type", AllList)
        odd_junction_conflicts == Get(odd, "junction_conflict", AllList)
        junction_type == IF metadata.junc_type.t = "absent" THEN PyNone
                         ELSE metadata.junc_type
    IN IF junction_type.t = "none" \/ ~PyIn(junction_type, odd_junction_types)
       THEN TRUE
       ELSE /\ ~PyIn(PyStr("ALL"), odd_junction_conflicts)
            /\ \E i \in 1..Len(metadata.conflict_counter) :
                   /\ metadata.conflict_counter[i].count # 0
                   /\ ~PyIn(PyEnum(metadata.conflict_counter[i].name),
                            odd_junction_conflicts)

\* check_single_junction_odd_incompliance.  metadata is the record
\* [junc_type, conflict_counter]: junc_type a JSON value (Absent when the
\* key is missing), conflict_counter the items of the stored dict as a
\* sequence of [name, count] with names of JuncConflict members.  The
\* Counter the code builds is keyed by the Enum members themselves.
check_single_junction_odd_incompliance(odd, metadata) ==
    LET odd_junction_types == Get(odd, "junction_type", AllList)
        odd_junction_conflicts == Get(odd, "junction_conflict", AllList)
        junction_type == IF metadata.junc_type.t = "absent" THEN PyNone
                         ELSE metadata.junc_type
        counter == [i \in 1..Len(metadata.conflict_counter) |->
                       [key |-> PyEnum(metadata.conflict_counter[i].name),
                        count |-> metadata.conflict_counter[i].count]]
    IN IF /\ ~PyIn(PyStr("ALL"), odd_junction_types)
          /\ (junction_type.t = "none" \/ ~PyIn(junction_type, odd_junction_types))
       THEN TRUE
       ELSE IF /\ ~PyIn(PyStr("ALL"), odd_junction_conflicts)
               /\ \E i \in 1..Len(counter) :
                      /\ counter[i].count # 0
                      /\ ~PyIn(counter[i].key, odd_junction_conflicts)
       THEN TRUE
       ELSE FALSE

\* Variant of ComplianceRule in which ALL inside a list lifts nothing
ComplianceRule_no_all(metadata, meta_key, odd_value) ==
    LET value == Get(metadata, meta_key, PyNone) IN
    IF IsList(odd_value) /\ odd_value.items # <<>>
    THEN ~(value.t = "none" \/ ~PyIn(value, odd_value))
    ELSE ~(~PyEq(odd_value, PyStr("ALL")) /\ ~PyEq(value, odd_value))

\* One row of compliance_rules in check_single_edge_odd_compliance: TRUE
\* when the row does not reject the edge
ComplianceRule(metadata, meta_key, odd_value) ==
    LET value == Get(metadata, meta_key, PyNone) IN
    IF IsList(odd_value) /\ odd_value.items # <<>>
    THEN ~(/\ ~PyIn(PyStr("ALL"), odd_value)
           /\ (value.t = "none" \/ ~PyIn(value, odd_value)))
    ELSE ~(~PyEq(odd_value, PyStr("ALL")) /\ ~PyEq(value, odd_value))

\* Variant of FirstOfList that leaves a list policy as it is
FirstOfList_kept(flag_odd) == flag_odd

\* The unwrapping of a boolean policy given as a non-empty list
FirstOfList(flag_odd) ==
    IF IsList(flag_odd) /\ Len(flag_odd.items) > 0 THEN flag_odd.items[1] ELSE flag_odd

\* Variant of BooleanFlag that demands the flag to equal the policy
BooleanFlag_match(odd, metadata, key) ==
    LET flag_odd == FirstOfList(Get(odd, key, PyBool(TRUE)))
    IN PyTruthy(flag_odd) = PyTruthy(Get(metadata, key, PyNone))

\* A boolean-flag check: TRUE when it does not reject the edge
BooleanFlag(odd, metadata, key) ==
    LET flag_odd == FirstOfList(Get(odd, key, PyBool(TRUE)))
    IN ~(~PyTruthy(flag_odd) /\ ~PyTruthy(Get(metadata, key, PyNone)))

\* float(s) for the numeric texts that occur; any other text is a ValueError
StrToFloat(s) ==
    CASE s = "3" -> Some(3)
      [] s = "30" -> Some(30)
      [] s = "50" -> Some(50)
      [] OTHER -> None

\* to_float: None stands for the swallowed TypeError / ValueError
to_float(x) ==
    CASE x.t \in {"bool", "num"} -> Some(x.n)
      [] x.t = "str" -> StrToFloat(x.s)
      [] OTHER -> None

\* Variant of MinOfSeq that takes the first value
MinOfSeq_first(q) == q[1]

RECURSIVE MinOfSeq(_)
MinOfSeq(q) ==
    IF Len(q) = 1 THEN q[1]
    ELSE LET m == MinOfSeq(Tail(q)) IN IF q[1] <= m THEN q[1] ELSE m

get_min_numeric(source, key, fallback) ==
    LET val == Get(source, key, fallback) IN
    IF IsList(val)
    THEN LET floats == [i \in 1..Len(val.items) |-> to_float(val.items[i])]
             numeric_vals == SelectSeq(floats, LAMBDA v : v # None)
         IN IF numeric_vals # <<>>
            THEN Some(MinOfSeq([i \in 1..Len(numeric_vals) |-> numeric_vals[i][1]]))
            ELSE None
    ELSE to_float(val)

SpeedFallback == 999
WidthFallback == 0

check_single_edge_odd_compliance(odd, metadata) ==
    LET min_speed_limit == get_min_numeric(metadata, "speed_limit", PyNum(SpeedFallback))
        odd_speed_limit == get_min_numeric(odd, "speed_limit", PyNone)
        min_lane_width == get_min_numeric(metadata, "lane_width", PyNum(WidthFallback))
        odd_lane_width == get_min_numeric(odd, "lane_width", PyNone)
    IN IF ~ComplianceRule(metadata, "highway_type", Get(odd, "highway_type", PyStr("ALL")))
       THEN FALSE
       ELSE IF ~ComplianceRule(metadata, "lane_markings_forward",
                               Get(odd, "lane_markings", PyStr("ALL")))
       THEN FALSE
       ELSE IF ~BooleanFlag(odd, metadata, "oneway") THEN FALSE
       ELSE IF ~BooleanFlag(odd, metadata, "is_major_road") THEN FALSE
       ELSE IF /\ min_speed_limit # None /\ odd_speed_limit # None
               /\ min_speed_limit[1] > odd_speed_limit[1]
       THEN FALSE
       ELSE IF /\ min_lane_width # None /\ odd_lane_width # None
               /\ min_lane_width[1] < odd_lane_width[1]
       THEN FALSE
       ELSE TRUE

\* --------------------------------------------------- get_longest_network
\* A geometry is [type, coords]; a graph edge is the set of its end points.
IsLineString(geom) == geom.type = "LineString"

RECURSIVE AllCoords(_)
AllCoords(lines) ==
    IF lines = <<>> THEN <<>>
    ELSE (IF Len(lines[1].coords) >= 2 THEN lines[1].coords ELSE <<>>)
         \o AllCoords(Tail(lines))

\* Nodes of the nx.Graph in insertion order, and its edges
GraphNodes(lines) == Dedup(AllCoords(lines), {})

GraphEdges(lines) ==
    UNION {{{lines[k].coords[i], lines[k].coords[i + 1]} :
               i \in 1..(Len(lines[k].coords) - 1)} : k \in 1..Len(lines)}

\* The nodes connected to those of S
RECURSIVE Reach(_, _)
Reach(S, edges) ==
    LET T == S \cup UNION {e \in edges : e \cap S # {}}
    IN IF T = S THEN S ELSE Reach(T, edges)

\* nx.connected_components: the components in the order their first node
\* was inserted
RECURSIVE connected_components(_, _, _)
connected_components(nodes, edges, seen) ==
    IF nodes = <<>> THEN <<>>
    ELSE IF Head(nodes) \in seen THEN connected_components(Tail(nodes), edges, seen)
    ELSE LET c == Reach({Head(nodes)}, edges)
         IN <<c>> \o connected_components(Tail(nodes), edges, seen \cup c)

Abs(x) == IF x < 0 THEN -x ELSE x

\* LineString([u, v]).length, for segments whose length is a whole number
SegmentLength(e) ==
    LET u == CHOOSE p \in e : TRUE
        v == CHOOSE q \in e : e = {u, q}
        dx == u[1] - v[1]
        dy == u[2] - v[2]
    IN CHOOSE n \in 0..(Abs(dx) + Abs(dy)) : n * n = dx * dx + dy * dy

RECURSIVE SumLength(_)
SumLength(edges) ==
    IF edges = {} THEN 0
    ELSE LET e == CHOOSE x \in edges : TRUE
         IN SegmentLength(e) + SumLength(edges \ {e})

\* sg.edges of G.subgraph(c)
SubgraphEdges(c, edges) == {e \in edges : e \subseteq c}

\* Variant of FirstMax that takes the last item with the largest key
FirstMax_last(keys) ==
    CHOOSE i \in 1..Len(keys) :
        /\ \A j \in 1..Len(keys) : keys[j] <= keys[i]
        /\ \A j \in (i + 1)..Len(keys) : keys[j] < keys[i]

\* max(iterable, key): the first item with the largest key
FirstMax(keys) ==
    CHOOSE i \in 1..Len(keys) :
        /\ \A j \in 1..Len(keys) : keys[j] <= keys[i]
        /\ \A j \in 1..(i - 1) : keys[j] < keys[i]

\* get_longest_network: None, or the set of segments of the Feature's
\* MultiLineString
get_longest_network(geometries) ==
    LET lines == SelectSeq(geometries, IsLineString) IN
    IF lines = <<>> THEN None
    ELSE LET edges == GraphEdges(lines)
             comps == connected_components(GraphNodes(lines), edges, {})
             keys == [i \in 1..Len(comps) |-> SumLength(SubgraphEdges(comps[i], edges))]
             lines_out == SubgraphEdges(comps[FirstMax(keys)], edges)
         IN IF lines_out # {} THEN Some(lines_out) ELSE None

\* ------------------------------------------------- network_odd_compliance
\* str.lower for the spellings of odd_type that occur
Lower(s) ==
    CASE s = "ALL" -> "all"
      [] s = "Live" -> "live"
      [] s = "PREDEFINED" -> "predefined"
      [] OTHER -> s

\* The characters of a text, for the texts given as a facility filter
Chars(s) ==
    CASE s = "ALL" -> <<PyStr("A"), PyStr("L"), PyStr("L")>>
      [] OTHER -> <<PyStr(s)>>

\* Iterating a str yields its characters
Elements(lst) == IF lst.t = "str" THEN Chars(lst.s) ELSE lst.items

normalize_bool_list(lst) ==
    PyList([i \in 1..Len(Elements(lst)) |->
               IF Elements(lst)[i].t = "str" THEN Elements(lst)[i]
               ELSE PyBool(PyTruthy(Elements(lst)[i]))])

\* odd_school_zone / odd_parking_lot / odd_traffic_signals
FacilityFilter(odd, key) ==
    IF odd[key].t # "absent" THEN Some(normalize_bool_list(odd[key])) ELSE None

\* Variant of FacilityRejected in which every facility follows the
\* school_zone filter
FacilityRejected_shared(odd, key) ==
    LET flt == FacilityFilter(odd, "school_zone")
    IN flt # None /\ ~PyIn(PyBool(TRUE), flt[1])

FacilityRejected(odd, key) ==
    LET flt == FacilityFilter(odd, key)
    IN flt # None /\ ~PyIn(PyBool(TRUE), flt[1])

\* The body of the feature loop: TRUE when feature f puts its node into
\* incompliant_nodes
FeatureIncompliant(odd, f) ==
    IF f.feature_type = "school_zone" /\ FacilityRejected(odd, "school_zone") THEN TRUE
    ELSE IF f.feature_type = "parking_lot" /\ FacilityRejected(odd, "parking_lot") THEN TRUE
    ELSE IF f.feature_type = "traffic_signals" /\ FacilityFilter(odd, "traffic_signals") # None
    THEN FacilityRejected(odd, "traffic_signals")
    ELSE IF f.feature_type = "junction"
    THEN f.metadata = None \/ check_single_junction_odd_incompliance(odd, f.metadata[1])
    ELSE FALSE

IncompliantNodes(odd, features) ==
    {features[i]._id : i \in {i \in 1..Len(features) :
        \E j \in 1..Len(features[i].features) :
            FeatureIncompliant(odd, features[i].features[j])}}

\* Variant of EndpointsCompliant that is content with one compliant end
EndpointsCompliant_any(nodes, incompliant) ==
    \E i \in 1..Len(nodes) : nodes[i] \notin incompliant

\* all(node_id not in incompliant_nodes for node_id in nodes)
EndpointsCompliant(nodes, incompliant) ==
    \A i \in 1..Len(nodes) : nodes[i] \notin incompliant

\* An edge document's _id "u_v_key" is held as its fields <<u, v, key>>
EdgeNodes(doc) == SubSeq(doc._id, 1, 2)

\* The ODD in force: None when no filtering is requested
SelectOdd(req_json, req_obj) ==
    LET odd_type == Lower(IF req_json.odd_type.t = "absent" THEN "all"
                          ELSE req_json.odd_type.s)
    IN IF odd_type = "predefined" THEN Some(req_obj.odd)
       ELSE IF odd_type = "live" THEN req_json.odd_param
       ELSE None

network_odd_compliance(req_json, req_obj, features, primary_docs) ==
    LET odd == SelectOdd(req_json, req_obj) IN
    IF odd = None
    THEN LET geoms == [i \in 1..Len(primary_docs) |-> primary_docs[i].geometry]
         IN [incompliant_nodes |-> {}, compliant_geom |-> geoms,
             resp |-> get_longest_network(geoms)]
    ELSE LET incompliant == IncompliantNodes(odd[1], features)
             kept == SelectSeq(primary_docs, LAMBDA doc :
                         /\ EndpointsCompliant(EdgeNodes(doc), incompliant)
                         /\ check_single_edge_odd_compliance(odd[1], doc.metadata))
             geoms == [i \in 1..Len(kept) |-> kept[i].geometry]
         IN [incompliant_nodes |-> incompliant, compliant_geom |-> geoms,
             resp |-> get_longest_network(geoms)]

\* POST /network
NetworkMain ==
    LET r == network_odd_compliance(request_json, req, coll_feature, coll_primary)
    IN /\ incompliant_nodes' = r.incompliant_nodes
       /\ compliant_geom' = r.compliant_geom
       /\ resp' = [called |-> TRUE, value |-> r.resp]
       /\ UNCHANGED <<request_json, coll_feature, coll_primary>>
       /\ UNCHANGED <<varsJ, varsC, varsB, varsQ, varsE, varsX>>

\* --------------------------------------------------- graphs and requests
\* Candidate neighbour coordinates around the node at <<0, 0>>, in the
\* adjacency order of the graph.
NbrPoints ==
    << <<1, 0>>, <<2, 1>>, <<0, 1>>, <<-1, 2>>, <<-1, 0>>, <<0, -1>> >>

PointIndex(p) == CHOOSE i \in 1..Len(NbrPoints) : NbrPoints[i] = p

AdjacencyOrdered(es) ==
    \A i \in 1..Len(es) : \A j \in 1..Len(es) :
        i < j => PointIndex(es[i].nbr) <= PointIndex(es[j].nbr)

SeqsUpTo(S, n) == UNION {[1..k -> S] : k \in 0..n}

Thresholds == {90, JuncTyAngleThresholdDefault}

Requests == [overwrite : BOOLEAN, junc_ty_angle_threshold : Thresholds, odd : {DefaultOdd}]

NodeAt(junction, highway) == [xy |-> <<0, 0>>, junction |-> junction, highway |-> highway]

\* Untagged edges to any of the candidate neighbours, both directions
GeomEdges ==
    {[nbr |-> NbrPoints[i], dir |-> d, junction |-> NoTag] :
        i \in 1..Len(NbrPoints), d \in {"in", "out"}}

\* Graphs that vary the geometry: untagged node, untagged edges
GeomGraphs ==
    {[node |-> NodeAt(NoTag, NoTag), edges |-> es] :
        es \in {s \in SeqsUpTo(GeomEdges, MaxEdges) : AdjacencyOrdered(s)}}

\* Graphs that vary the tags: the k-th edge goes to the k-th candidate
\* neighbour; up to MaxTagEdges edges of either direction with any junction
\* tag, followed by up to two untagged out-edges
EdgeTags == {NoTag, Str("roundabout"), Str("yes"), Lst(<<"roundabout", "circular">>)}
NodeJunctionTags == {NoTag, Str("yes"), Str("island")}
NodeHighwayTags == {NoTag, Str("turning_circle"), Lst(<<"crossing", "mini_roundabout">>)}

TagDecor == [dir : {"in", "out"}, junction : EdgeTags]
PlainDecor == [dir |-> "out", junction |-> NoTag]

Place(decor) ==
    [k \in 1..Len(decor) |->
        [nbr |-> NbrPoints[k], dir |-> decor[k].dir, junction |-> decor[k].junction]]

TagGraphs ==
    {[node |-> NodeAt(j, h), edges |-> Place(pre \o [k \in 1..m |-> PlainDecor])] :
        j \in NodeJunctionTags, h \in NodeHighwayTags,
        pre \in SeqsUpTo(TagDecor, MaxTagEdges), m \in 0..2}

\* -------------------------------------------------------- network inputs
MetaKeys ==
    {"highway_type", "lane_markings_forward", "oneway", "is_major_road",
     "speed_limit", "lane_width"}

MetaOf(entries) == [k \in MetaKeys |-> IF k \in DOMAIN entries THEN entries[k] ELSE Absent]

\* Metadata of an edge no ODD in the input families rejects by itself
PlainMeta ==
    MetaOf("highway_type" :> PyStr("residential")
           @@ "lane_markings_forward" :> PyList(<<>>)
           @@ "oneway" :> PyBool(TRUE)
           @@ "is_major_road" :> PyBool(TRUE)
           @@ "speed_limit" :> PyNone
           @@ "lane_width" :> PyNone)

NodePoint(n) == <<10 * n, 0>>

LineStringOf(coords) == [type |-> "LineString", coords |-> coords]

PrimaryDoc(u, v, metadata) ==
    [_id |-> <<u, v, 0>>, metadata |-> metadata,
     geometry |-> LineStringOf(<<NodePoint(u), NodePoint(v)>>)]

EmptyOdd == [k \in OddKeys |-> Absent]

\* The ways an ODD reaches the handler: sent with the request (live), held
\* in the cached WebRequest (predefined), or sent but not asked for (all)
LiveRequest(odd) ==
    /\ request_json = [odd_type |-> PyStr("Live"), odd_param |-> Some(odd)]
    /\ req = DefaultRequest

PredefinedRequest(odd) ==
    /\ request_json = [odd_type |-> PyStr("predefined"), odd_param |-> None]
    /\ req = [DefaultRequest EXCEPT !.odd = odd]

UnfilteredRequest(odd) ==
    /\ request_json = [odd_type |-> PyStr("ALL"), odd_param |-> Some(odd)]
    /\ req = DefaultRequest

JunctionFeature(metadata) == [feature_type |-> "junction", metadata |-> metadata]
FacilityFeature(feature_type) == [feature_type |-> feature_type, metadata |-> None]

\* Family 1: one junction node under ODDs on junction type and conflicts
ConflictNames == <<"INTERSECT", "MERGE", "NO_CONFLICT">>

ConflictCounters ==
    {<<>>} \cup
    {[i \in 1..Len(ConflictNames) |-> [name |-> ConflictNames[i], count |-> c[i]]] :
        c \in [1..Len(ConflictNames) -> 0..MaxCount]}

JuncTypes == {PyStr("CROSSROAD"), PyStr("T_JUNCTION"), PyNone, Absent}

JunctionMetadata ==
    {None} \cup
    {Some([junc_type |-> t, conflict_counter |-> c]) : t \in JuncTypes, c \in ConflictCounters}

OddJunctionTypes ==
    {Absent, AllList, PyList(<<PyStr("CROSSROAD")>>),
     PyList(<<PyStr("CROSSROAD"), PyStr("ALL")>>), PyList(<<>>)}

OddJunctionConflicts ==
    {Absent, AllList, PyList(<<PyStr("MERGE")>>),
     PyList(<<PyStr("INTERSECT"), PyStr("MERGE"), PyStr("NO_CONFLICT")>>),
     PyList(<<PyStr("INTERSECT"), PyStr("ALL")>>)}

NodeFamily ==
    /\ \E m \in JunctionMetadata :
          coll_feature = <<[_id |-> 1, features |-> <<JunctionFeature(m)>>]>>
    /\ coll_primary = <<PrimaryDoc(1, 2, PlainMeta), PrimaryDoc(2, 3, PlainMeta)>>
    /\ \E jt \in OddJunctionTypes, jc \in OddJunctionConflicts :
          LET odd == [EmptyOdd EXCEPT !["junction_type"] = jt, !["junction_conflict"] = jc]
          IN LiveRequest(odd) \/ PredefinedRequest(odd)

\* Family 2: one edge under ODDs on the boolean flags and the highway type
FlagPolicies ==
    {Absent, PyBool(TRUE), PyBool(FALSE), PyList(<<PyBool(TRUE)>>),
     PyList(<<PyBool(FALSE)>>), PyList(<<>>),
     PyList(<<PyBool(TRUE), PyBool(FALSE)>>), PyList(<<PyBool(FALSE), PyBool(TRUE)>>)}

EdgeFlags == {Absent, PyBool(TRUE), PyBool(FALSE)}

EdgeFamily ==
    /\ coll_feature = <<>>
    /\ \E ow \in EdgeFlags, mr \in EdgeFlags,
          hw \in {PyStr("residential"), PyStr("motorway")} :
          coll_primary =
              <<PrimaryDoc(1, 2, [PlainMeta EXCEPT !["oneway"] = ow,
                                                   !["is_major_road"] = mr,
                                                   !["highway_type"] = hw])>>
    /\ \E ow \in FlagPolicies, mr \in FlagPolicies,
          hw \in {Absent, PyList(<<PyStr("residential")>>)} :
          LiveRequest([EmptyOdd EXCEPT !["oneway"] = ow, !["is_major_road"] = mr,
                                       !["highway_type"] = hw])

\* Family 3: three nodes joined by the edges 1-2, 2-3 and 3-2, any node
\* carrying features, under ODDs that reject nodes, edges, both or nothing
NodeFeatureChoices ==
    {<<>>,
     <<FacilityFeature("school_zone")>>,
     <<JunctionFeature(Some([junc_type |-> PyStr("CROSSROAD"), conflict_counter |-> <<>>]))>>,
     <<FacilityFeature("school_zone"),
       JunctionFeature(Some([junc_type |-> PyStr("T_JUNCTION"), conflict_counter |-> <<>>]))>>}

FeatureDocs(choice) ==
    SelectSeq([n \in 1..3 |-> [_id |-> n, features |-> choice[n]]],
              LAMBDA doc : doc.features # <<>>)

TwoWayMeta == [PlainMeta EXCEPT !["oneway"] = PyBool(FALSE)]

AggregateOdds ==
    {DefaultOdd,
     [EmptyOdd EXCEPT !["school_zone"] = PyList(<<PyBool(FALSE)>>)],
     [EmptyOdd EXCEPT !["junction_type"] = PyList(<<PyStr("CROSSROAD")>>)],
     [EmptyOdd EXCEPT !["oneway"] = PyBool(FALSE)],
     [EmptyOdd EXCEPT !["school_zone"] = PyList(<<PyBool(TRUE)>>),
                      !["junction_type"] = PyList(<<PyStr("T_JUNCTION")>>)],
     [EmptyOdd EXCEPT !["school_zone"] = PyList(<<PyBool(FALSE)>>),
                      !["oneway"] = PyList(<<PyBool(FALSE)>>)]}

AggregateFamily ==
    /\ \E choice \in [1..3 -> NodeFeatureChoices] : coll_feature = FeatureDocs(choice)
    /\ \E m1 \in {PlainMeta, TwoWayMeta}, m2 \in {PlainMeta, TwoWayMeta} :
          coll_primary = <<PrimaryDoc(1, 2, m1), PrimaryDoc(2, 3, m2),
                           PrimaryDoc(3, 2, PlainMeta)>>
    /\ \E odd \in AggregateOdds :
          LiveRequest(odd) \/ PredefinedRequest(odd) \/ UnfilteredRequest(odd)

\* Family 4: no ODD, edges whose geometries vary.  Lines run along two
\* rows of points and one rung between the rows; one geometry is no
\* LineString.
RowLines(y) ==
    {LineStringOf(<< <<0, y>>, <<10, y>> >>), LineStringOf(<< <<10, y>>, <<0, y>> >>),
     LineStringOf(<< <<10, y>>, <<25, y>> >>), LineStringOf(<< <<0, y>>, <<25, y>> >>)}

Geometries ==
    RowLines(0) \cup RowLines(1)
    \cup {LineStringOf(<< <<0, 0>>, <<0, 1>> >>),
          LineStringOf(<< <<0, 0>>, <<10, 0>>, <<25, 0>> >>),
          [type |-> "Point", coords |-> << <<0, 0>> >>]}

GeometryFamily ==
    /\ coll_feature = <<>>
    /\ \E geoms \in SeqsUpTo(Geometries, MaxLines) :
          coll_primary = [i \in 1..Len(geoms) |->
                             [_id |-> <<i, i + 1, 0>>, metadata |-> PlainMeta,
                              geometry |-> geoms[i]]]
    /\ request_json = [odd_type |-> Absent, odd_param |-> None]
    /\ req = DefaultRequest

\* Family 5: one edge under ODDs on the speed limit and the lane width.
\* An ODD read from the Excel sheet holds every value as text.
EdgeSpeedLimits ==
    {Absent, PyNone, PyNum(30), PyNum(60), PyList(<<PyNum(60), PyNum(30)>>)}

EdgeLaneWidths == {Absent, PyNone, PyNum(3), PyNum(4)}

OddSpeedLimits ==
    {Absent, PyNum(0), PyNum(50), PyList(<<PyNum(50)>>),
     PyList(<<PyNum(70), PyNum(50)>>), PyList(<<PyStr("50")>>),
     PyList(<<>>), AllList}

OddLaneWidths == {Absent, PyNum(4), PyList(<<PyNum(5), PyNum(4)>>), PyList(<<PyStr("3")>>)}

NumericFamily ==
    /\ coll_feature = <<>>
    /\ \E sl \in EdgeSpeedLimits, lw \in EdgeLaneWidths :
          coll_primary =
              <<PrimaryDoc(1, 2, [PlainMeta EXCEPT !["speed_limit"] = sl,
                                                   !["lane_width"] = lw])>>
    /\ \E sl \in OddSpeedLimits, lw \in OddLaneWidths :
          LiveRequest([EmptyOdd EXCEPT !["speed_limit"] = sl, !["lane_width"] = lw])

\* Family 6: one edge under ODDs on the highway type and the lane markings
EdgeHighwayTypes == {PyStr("residential"), PyStr("motorway"), PyNone, Absent}

EdgeLaneMarkings ==
    {PyList(<<>>), PyList(<<PyStr("through")>>),
     PyList(<<PyStr("through"), PyStr("left")>>), PyList(<<PyStr("right")>>)}

OddHighwayTypes ==
    {Absent, PyStr("ALL"), AllList, PyList(<<PyStr("residential")>>),
     PyList(<<PyStr("motorway"), PyStr("residential")>>),
     PyList(<<PyStr("residential"), PyStr("ALL")>>), PyList(<<>>)}

OddLaneMarkings ==
    {Absent, PyStr("ALL"), AllList, PyList(<<PyStr("through")>>),
     PyList(<<PyStr("left"), PyStr("through")>>),
     PyList(<<PyStr("ALL"), PyStr("left")>>), PyList(<<>>)}

CategoryFamily ==
    /\ coll_feature = <<>>
    /\ \E hw \in EdgeHighwayTypes, lm \in EdgeLaneMarkings :
          coll_primary =
              <<PrimaryDoc(1, 2, [PlainMeta EXCEPT !["highway_type"] = hw,
                                                   !["lane_markings_forward"] = lm])>>
    /\ \E hw \in OddHighwayTypes, lm \in OddLaneMarkings :
          LiveRequest([EmptyOdd EXCEPT !["highway_type"] = hw, !["lane_markings"] = lm])

\* Family 7: one node carrying any of the facility features and a junction
\* feature, under ODDs on the three facility filters and the junction type
Facilities == <<"school_zone", "parking_lot", "traffic_signals">>

FacilityFilters ==
    {Absent, PyList(<<PyBool(TRUE)>>), PyList(<<PyBool(FALSE)>>),
     PyList(<<PyBool(FALSE), PyBool(TRUE)>>), PyList(<<>>)}

CarriedFeatures(carried, junction) ==
    SelectSeq([i \in 1..Len(Facilities) |-> FacilityFeature(Facilities[i])],
              LAMBDA f : f.feature_type \in carried)
    \o (IF junction
        THEN <<JunctionFeature(Some([junc_type |-> PyStr("CROSSROAD"),
                                     conflict_counter |-> <<>>]))>>
        ELSE <<>>)

FacilityFamily ==
    /\ \E carried \in SUBSET {Facilities[i] : i \in 1..Len(Facilities)}, junction \in BOOLEAN :
          /\ carried # {} \/ junction
          /\ coll_feature = <<[_id |-> 1, features |-> CarriedFeatures(carried, junction)]>>
    /\ coll_primary = <<PrimaryDoc(1, 2, PlainMeta), PrimaryDoc(2, 3, PlainMeta)>>
    /\ \E sz \in FacilityFilters, pl \in FacilityFilters, ts \in FacilityFilters,
          jt \in {Absent, PyList(<<PyStr("T_JUNCTION")>>)} :
          LiveRequest([EmptyOdd EXCEPT !["school_zone"] = sz, !["parking_lot"] = pl,
                                       !["traffic_signals"] = ts, !["junction_type"] = jt])

\* Family 8: a small network under ODDs that give ALL, as the literal or
\* as the list, for one attribute or for every attribute
AllForms == {PyStr("ALL"), AllList}

AllOdds ==
    {[k \in OddKeys |-> form] : form \in AllForms}
    \cup {[EmptyOdd EXCEPT ![k] = form] : k \in OddKeys, form \in AllForms}

CountedJunction ==
    JunctionFeature(Some([junc_type |-> PyStr("CROSSROAD"),
                          conflict_counter |-> <<[name |-> "MERGE", count |-> 1]>>]))

AllFamily ==
    /\ \E f \in {FacilityFeature(Facilities[i]) : i \in 1..Len(Facilities)}
                \cup {CountedJunction} :
          coll_feature = <<[_id |-> 1, features |-> <<f>>]>>
    /\ \E m \in {TwoWayMeta,
                 [PlainMeta EXCEPT !["is_major_road"] = PyBool(FALSE)],
                 [PlainMeta EXCEPT !["speed_limit"] = PyNum(60),
                                   !["lane_width"] = PyNum(3),
                                   !["lane_markings_forward"] = PyList(<<PyStr("through")>>)]} :
          coll_primary = <<PrimaryDoc(1, 2, PlainMeta), PrimaryDoc(2, 3, m)>>
    /\ \E odd \in AllOdds : LiveRequest(odd)

InitNetwork ==
    /\ IdleG
    /\ IdleC
    /\ IdleB
    /\ IdleQ
    /\ IdleE
    /\ IdleX
    /\ incompliant_nodes = {}
    /\ compliant_geom = <<>>
    /\ resp = NotCalled
    /\ NodeFamily \/ EdgeFamily \/ AggregateFamily \/ GeometryFamily \/ NumericFamily
       \/ CategoryFamily \/ FacilityFamily \/ AllFamily

NextNetwork == NetworkMain

SpecNetwork == InitNetwork /\ [][NextNetwork]_vars

NotRun == [ran |-> FALSE, raised |-> FALSE, doc |-> None]

InitJunction ==
    /\ \/ G \in GeomGraphs /\ req \in Requests
       \/ G \in TagGraphs
          /\ req \in [overwrite : BOOLEAN,
                      junc_ty_angle_threshold : {JuncTyAngleThresholdDefault},
                      odd : {DefaultOdd}]
    /\ junction_coll = None
    /\ network_feature = {}
    /\ ret = NotRun
    /\ IdleC
    /\ IdleN
    /\ IdleB
    /\ IdleQ
    /\ IdleE
    /\ IdleX

NextJunction == AnalyzeAllNodes

SpecJunction == InitJunction /\ [][NextJunction]_vars

\* ------------------------------------------------------ the junction batch
\* coll.find_one({'_id': id})
find_one(coll, id) ==
    IF \E i \in 1..Len(coll) : coll[i]._id = id
    THEN Some(coll[CHOOSE i \in 1..Len(coll) : coll[i]._id = id].doc)
    ELSE None

\* ReplaceOne({'_id': id}, doc, upsert=True)
ReplaceOne(coll, id, doc) ==
    IF \E i \in 1..Len(coll) : coll[i]._id = id
    THEN [i \in 1..Len(coll) |->
            IF coll[i]._id = id THEN [_id |-> id, doc |-> doc] ELSE coll[i]]
    ELSE Append(coll, [_id |-> id, doc |-> doc])

\* Variant of $addToSet that appends without looking
AddToSet_push(features, f) == Append(features, f)

\* $addToSet: append unless an equal element is there
AddToSet(features, f) ==
    IF \E i \in 1..Len(features) : features[i] = f THEN features ELSE Append(features, f)

\* UpdateOne({'_id': id}, {'$addToSet': {'features': f}}, upsert=True)
UpdateOne(coll, id, f) ==
    IF \E i \in 1..Len(coll) : coll[i]._id = id
    THEN [i \in 1..Len(coll) |->
            IF coll[i]._id = id
            THEN [coll[i] EXCEPT !.features = AddToSet(@, f)]
            ELSE coll[i]]
    ELSE Append(coll, [_id |-> id, features |-> AddToSet(<<>>, f)])

\* coll.bulk_write(ops_junc), coll.bulk_write(ops_net): in list order
RECURSIVE bulk_write_junction(_, _)
bulk_write_junction(coll, ops) ==
    IF ops = <<>> THEN coll
    ELSE bulk_write_junction(ReplaceOne(coll, Head(ops)._id, Head(ops).doc), Tail(ops))

RECURSIVE bulk_write_feature(_, _)
bulk_write_feature(coll, ops) ==
    IF ops = <<>> THEN coll
    ELSE bulk_write_feature(UpdateOne(coll, Head(ops)._id, Head(ops).feature), Tail(ops))

\* The loop of analyze_all_nodes: analyze_node for every core node in list
\* order.  Every find_one of the loop reads the junction collection as it was
\* before the call, the bulk writes come after the loop.
NodeOutcomes(g, core_nodes, request, coll) ==
    [k \in 1..Len(core_nodes) |->
        analyze_node(g[core_nodes[k]], request.overwrite,
                     request.junc_ty_angle_threshold,
                     find_one(coll, g[core_nodes[k]].node.xy))]

Positions(n) == [k \in 1..n |-> k]

\* analyze_all_nodes: [raised, results, ops_junc, ops_net]; an exception of
\* analyze_node is not caught and leaves the function before the bulk writes.
analyze_all_nodes(g, core_nodes, request, coll) ==
    LET o == NodeOutcomes(g, core_nodes, request, coll)
        n == Len(core_nodes)
        returned == SelectSeq(Positions(n), LAMBDA k : o[k].doc # None)
        written  == SelectSeq(Positions(n), LAMBDA k : o[k].ops_junc # None)
        tagged   == SelectSeq(Positions(n), LAMBDA k : o[k].ops_net # None)
    IN IF \E k \in 1..n : o[k].raised
       THEN [raised |-> TRUE, results |-> <<>>, ops_junc |-> <<>>, ops_net |-> <<>>]
       ELSE [raised |-> FALSE,
             results |-> [j \in 1..Len(returned) |-> o[returned[j]].doc[1]],
             ops_junc |-> [j \in 1..Len(written) |->
                             [_id |-> g[core_nodes[written[j]]].node.xy,
                              doc |-> o[written[j]].ops_junc[1]]],
             ops_net |-> [j \in 1..Len(tagged) |->
                             [_id |-> core_nodes[tagged[j]],
                              feature |-> o[tagged[j]].ops_net[1]]]]

\* GET /junction over the cached graph and core-node list
JunctionMain ==
    LET r == analyze_all_nodes(graph, graph_core_nodes, req, db_junction)
    IN /\ runs < MaxRuns
       /\ runs' = runs + 1
       /\ batch' = [ran |-> TRUE, raised |-> r.raised, results |-> r.results]
       /\ db_junction' = bulk_write_junction(db_junction, r.ops_junc)
       /\ db_network_feature' = bulk_write_feature(db_network_feature, r.ops_net)
       /\ extracted' = [extractor |-> "junction",
                        nodes |-> [j \in 1..Len(r.ops_net) |-> r.ops_net[j]._id]]
       /\ UNCHANGED <<graph, graph_core_nodes, db_road_feature>>
       /\ UNCHANGED <<G, req, junction_coll, network_feature, ret>>
       /\ UNCHANGED <<varsC, varsN, varsQ, varsX>>

\* A node of the cached graph: the node at the origin moved dx to the east
Translate(g, dx) ==
    [node |-> [g.node EXCEPT !.xy = <<@[1] + dx, @[2]>>],
     edges |-> [i \in 1..Len(g.edges) |->
                  [g.edges[i] EXCEPT !.nbr = <<@[1] + dx, @[2]>>]]]

\* Untagged nodes with two, three and four out-edges, and a node whose
\* out-edge carries a list-valued junction tag
BatchShapes ==
    {[node |-> NodeAt(NoTag, NoTag), edges |-> Place(decor)] :
        decor \in {[k \in 1..m |-> PlainDecor] : m \in 2..4}
                  \cup {<<[dir |-> "out", junction |-> Lst(<<"roundabout", "circular">>)]>>}}

NodeSpacing == 10

CachedGraphs ==
    UNION {{[i \in 1..n |-> Translate(shapes[i], NodeSpacing * i)] :
                shapes \in [1..n -> BatchShapes]} : n \in 1..MaxNodes}

\* A junction document an earlier session left for the coordinate xy
StoredJunction(xy) ==
    [_id |-> xy,
     doc |-> [type |-> "Feature",
              properties |-> _structure_properties(
                  [feature_type |-> "junction", node_coords |-> xy,
                   junc_type |-> "ROUNDABOUT"])]]

InitBatch ==
    /\ graph \in CachedGraphs
    /\ graph_core_nodes = Positions(Len(graph))
    /\ db_junction \in {<<>>, <<StoredJunction(graph[1].node.xy)>>}
    /\ db_network_feature = <<>>
    /\ batch = NoBatch
    /\ runs = 0
    /\ IdleG
    /\ req \in [overwrite : BOOLEAN,
                junc_ty_angle_threshold : {JuncTyAngleThresholdDefault},
                odd : {DefaultOdd}]
    /\ IdleC
    /\ IdleN
    /\ IdleQ
    /\ IdleE
    /\ IdleX

NextBatch == JunctionMain

SpecBatch == InitBatch /\ [][NextBatch]_vars

\* ------------------------------------------------------------- POST /query
\* The queries a client may send: distinct (input_type, input, dist,
\* lane_width) payloads, which have distinct query_key() checksums
Queries == 1..MaxQueries

\* Where the handler stops: the body fails validation, get_graph raises for
\* the full graph or for the core graph, get_features raises, or nothing does
Failures == {"validation", "graph", "core_graph", "features", "none"}

\* Status of the response; an exception that leaves the handler is answered
\* by the framework
Ok == "200"
BadRequest == "400"
Unhandled == "unhandled exception"

\* query_config_endpoint for the query q: the cache it leaves, the status, what
\* the response was computed from, and whether the collections were dropped
query_config_endpoint(c, q, failure) ==
    LET new_query == c["query_key"] # Some(q)
        c1 == [c EXCEPT !["request"] = Some(q)]
        c2 == IF new_query THEN [c1 EXCEPT !["query_key"] = Some(q)] ELSE c1
        c3 == [c2 EXCEPT !["graph"] = Some(q)]
        c4 == [c3 EXCEPT !["graph_core_nodes"] = Some(q)]
        c5 == [c4 EXCEPT !["gdf"] = Some(q)]
        Stop(cc, status) ==
            [cache |-> cc, dropped |-> FALSE,
             resp |-> [status |-> status, graph |-> None, core_nodes |-> None]]
        Done(cc) ==
            [cache |-> cc, dropped |-> TRUE,
             resp |-> [status |-> Ok, graph |-> cc["graph"],
                       core_nodes |-> cc["graph_core_nodes"]]]
    IN IF failure = "validation" THEN Stop(c, BadRequest)
       ELSE IF ~new_query THEN Done(c2)
       ELSE IF failure = "graph" THEN Stop(c2, Unhandled)
       ELSE IF failure = "core_graph" THEN Stop(c3, Unhandled)
       ELSE IF failure = "features" THEN Stop(c4, Unhandled)
       ELSE Done(c5)

QueryMain(q, failure) ==
    LET r == query_config_endpoint(cache, q, failure)
    IN /\ cache' = r.cache
       /\ query_resp' = r.resp
       /\ coll_primary' = IF r.dropped THEN <<>> ELSE coll_primary
       /\ coll_feature' = IF r.dropped THEN <<>> ELSE coll_feature
       /\ db_network_feature' = IF r.dropped THEN <<>> ELSE db_network_feature
       /\ UNCHANGED <<request_json, incompliant_nodes, compliant_geom, resp>>
       /\ UNCHANGED <<graph, graph_core_nodes, db_junction, batch, runs>>
       /\ UNCHANGED <<varsJ, varsC, varsE, varsX>>

InitQuery ==
    /\ IdleQ
    /\ IdleE
    /\ IdleX
    /\ IdleJ
    /\ IdleC
    /\ IdleB
    /\ request_json = [odd_type |-> Absent, odd_param |-> None]
    /\ coll_feature \in {<<>>, <<[_id |-> 1, features |-> <<FacilityFeature("school_zone")>>]>>}
    /\ coll_primary \in {<<>>, <<PrimaryDoc(1, 2, PlainMeta)>>}
    /\ incompliant_nodes = {}
    /\ compliant_geom = <<>>
    /\ resp = NotCalled

NextQuery == \E q \in Queries, failure \in Failures : QueryMain(q, failure)

SpecQuery == InitQuery /\ [][NextQuery]_vars

\* ------------------------------------------------- the facility extractors
\* The operations an extractor builds for the node ids it identified
FacilityOps(nodes, feature_type) ==
    [j \in 1..Len(nodes) |-> [_id |-> nodes[j], feature |-> [feature_type |-> feature_type]]]

\* sorted(list(ids))
RECURSIVE Sorted(_)
Sorted(S) ==
    IF S = {} THEN <<>>
    ELSE LET m == CHOOSE x \in S : \A y \in S : x <= y
         IN <<m>> \o Sorted(S \ {m})

\* SchoolZoneMapper._calculate_nodes_in_zones: one $addToSet per node in the
\* zones, written to network_feature
SchoolZoneMain(final_node_ids) ==
    LET road_nodes_in_zones == Sorted(final_node_ids)
    IN /\ db_network_feature' =
              bulk_write_feature(db_network_feature,
                                 FacilityOps(road_nodes_in_zones, "school_zone"))
       /\ extracted' = [extractor |-> "school_zone", nodes |-> road_nodes_in_zones]
       /\ UNCHANGED <<graph, graph_core_nodes, db_junction, batch, runs, db_road_feature>>
       /\ UNCHANGED <<varsJ, varsC, varsN, varsQ, varsX>>

\* ParkingLotMapper._save_nodes_to_db: the loop assigns a one-element list
\* each time round, so the list holds the operation of the last node only;
\* the bulk write goes to road_feature
ParkingLotMain(all_connecting_nodes) ==
    LET connecting_nodes == Sorted(all_connecting_nodes)
        operations == IF connecting_nodes = <<>> THEN <<>>
                      ELSE FacilityOps(<<connecting_nodes[Len(connecting_nodes)]>>,
                                       "parking_lot")
    IN /\ db_road_feature' = bulk_write_feature(db_road_feature, operations)
       /\ extracted' = [extractor |-> "parking_lot", nodes |-> connecting_nodes]
       /\ UNCHANGED <<graph, graph_core_nodes, db_junction, db_network_feature, batch, runs>>
       /\ UNCHANGED <<varsJ, varsC, varsN, varsQ, varsX>>

\* TrafficSignalMapper.generate_graph_results: the nodes of the graph tagged
\* highway = traffic_signals, one $addToSet each, written to network_feature
TrafficSignalsMain ==
    LET signals == SelectSeq(Positions(Len(graph)),
                             LAMBDA n : graph[n].node.highway = Str("traffic_signals"))
    IN /\ db_network_feature' =
              bulk_write_feature(db_network_feature, FacilityOps(signals, "traffic_signals"))
       /\ extracted' = [extractor |-> "traffic_signals", nodes |-> signals]
       /\ UNCHANGED <<graph, graph_core_nodes, db_junction, batch, runs, db_road_feature>>
       /\ UNCHANGED <<varsJ, varsC, varsN, varsQ, varsX>>

\* Two nodes, each a crossroads or a node on a through road, with or without
\* a traffic signal
SessionGraphs ==
    {<<Translate([node |-> NodeAt(NoTag, h1), edges |-> Place([k \in 1..m1 |-> PlainDecor])],
                 NodeSpacing),
       Translate([node |-> NodeAt(NoTag, h2), edges |-> Place([k \in 1..m2 |-> PlainDecor])],
                 2 * NodeSpacing)>> :
        h1 \in {NoTag, Str("traffic_signals")}, h2 \in {NoTag, Str("traffic_signals")},
        m1 \in {2, 4}, m2 \in {2, 4}}

InitExtract ==
    /\ graph \in SessionGraphs
    /\ graph_core_nodes = Positions(Len(graph))
    /\ db_junction = <<>>
    /\ db_network_feature = <<>>
    /\ batch = NoBatch
    /\ runs = 0
    /\ IdleE
    /\ IdleX
    /\ IdleJ
    /\ IdleC
    /\ IdleN
    /\ IdleQ

NextExtract ==
    \/ JunctionMain
    \/ \E final_node_ids \in SUBSET DOMAIN graph : SchoolZoneMain(final_node_ids)
    \/ \E all_connecting_nodes \in SUBSET DOMAIN graph : ParkingLotMain(all_connecting_nodes)
    \/ TrafficSignalsMain

SpecExtract == InitExtract /\ [][NextExtract]_vars

\* ------------------------------------------- export and read-back of a record
\* A Counter[JuncConflict] is the sequence of its (key, count) items in
\* insertion order, the keys being enum members.
\* conflict_counter = {c.name: n for c, n in ctr.items()}
CounterNames(ctr) ==
    [i \in 1..Len(ctr) |-> [name |-> ctr[i].key.s, count |-> ctr[i].count]]

\* Counter({JuncConflict[name]: count for name, count in conflict_counter_str.items()})
CounterOfNames(conflict_counter_str) ==
    [i \in 1..Len(conflict_counter_str) |->
        [key |-> PyEnum(conflict_counter_str[i].name),
         count |-> conflict_counter_str[i].count]]

\* The document analyze_node builds for a node at coords: properties,
\* BaseExporter.model_validate, model_dump
junction_document(coords, junction_type, ctr) ==
    LET properties == [feature_type |-> "junction",
                       node_coords |-> coords,
                       junc_type |-> junction_type,
                       conflict_counter |-> CounterNames(ctr)]
    IN [type |-> "Feature", properties |-> _structure_properties(properties)]

\* What check_single_junction_odd_incompliance takes from the metadata
read_junction(metadata) ==
    [junction_type |-> metadata.junc_type,
     ctr |-> CounterOfNames(metadata.conflict_counter)]

\* analyze_node from the Counter on: the document, and its properties for
\* the $addToSet into network_feature
ExportRecord ==
    /\ exported = None
    /\ exported' = Some(junction_document(<<0, 0>>, junction_record.junction_type,
                                          junction_record.ctr).properties)
    /\ UNCHANGED <<junction_record, revalidated, read_back>>
    /\ UNCHANGED <<varsJ, varsC, varsN, varsB, varsQ, varsE, varsL, varsP>>

\* BaseExporter.model_validate applied to the exported document
ValidateAgain ==
    /\ exported # None
    /\ revalidated = None
    /\ revalidated' = Some(_structure_properties(exported[1]))
    /\ UNCHANGED <<junction_record, exported, read_back>>
    /\ UNCHANGED <<varsJ, varsC, varsN, varsB, varsQ, varsE, varsL, varsP>>

\* network_odd_compliance reaching the junction feature of the node
ReadRecord ==
    /\ exported # None
    /\ read_back = None
    /\ exported[1].feature_type = "junction"
    /\ read_back' = Some(read_junction(exported[1].metadata))
    /\ UNCHANGED <<junction_record, exported, revalidated>>
    /\ UNCHANGED <<varsJ, varsC, varsN, varsB, varsQ, varsE, varsL, varsP>>

\* Counters the tallying can leave: distinct conflict types in any insertion
\* order, each with a positive count
Counters ==
    {c \in UNION {[1..k -> [key : {PyEnum(n) : n \in JuncConflict}, count : 1..MaxCount]] :
                     k \in 0..Cardinality(JuncConflict)} :
        \A i \in 1..Len(c) : \A j \in 1..Len(c) : c[i].key = c[j].key => i = j}

InitRecord ==
    /\ junction_record \in [junction_type : JunctionType, ctr : Counters]
    /\ exported = None
    /\ revalidated = None
    /\ read_back = None
    /\ IdleJ
    /\ IdleC
    /\ IdleN
    /\ IdleB
    /\ IdleQ
    /\ IdleE
    /\ IdleL
    /\ IdleP

NextRecord == ExportRecord \/ ValidateAgain \/ ReadRecord

SpecRecord == InitRecord /\ [][NextRecord]_vars

\* ------------------------------------------------------------------- legs
\* An edge at the node: the neighbour's id and coordinates, whether the edge
\* arrives ("in": neighbour -> node) or leaves ("out"), and its data.
\* get_legs: one leg per incoming edge, then one per outgoing edge whose
\* neighbour has not been seen
RECURSIVE InLegs(_)
InLegs(es) ==
    IF es = <<>> THEN <<>>
    ELSE <<[nbr_id |-> Head(es).nbr_id, nbr_coord |-> Head(es).nbr_coord,
            in_turns |-> Some(_parse_lane_data(Head(es).data).turns)]>>
         \o InLegs(Tail(es))

RECURSIVE OutLegs(_, _)
OutLegs(es, seen) ==
    IF es = <<>> THEN <<>>
    ELSE IF Head(es).nbr_id \in seen THEN OutLegs(Tail(es), seen)
    ELSE <<[nbr_id |-> Head(es).nbr_id, nbr_coord |-> Head(es).nbr_coord,
            in_turns |-> None]>>
         \o OutLegs(Tail(es), seen \cup {Head(es).nbr_id})

get_legs(es) ==
    LET incoming == SelectSeq(es, LAMBDA e : e.dir = "in")
        outgoing == SelectSeq(es, LAMBDA e : e.dir = "out")
    IN InLegs(incoming)
       \o OutLegs(outgoing, {incoming[i].nbr_id : i \in 1..Len(incoming)})

\* get_dir_vector for the straight geometry between the node and the
\* neighbour: the step from the node's projection along the line, which points
\* from the node to the neighbour (its length does not enter the result)
get_dir_vector(node_xy, leg) ==
    <<leg.nbr_coord[1] - node_xy[1], leg.nbr_coord[2] - node_xy[2]>>

\* cos^2 and sin^2 of the thresholds the model draws from, as num / den
CosSq(thr) ==
    CASE thr = 30 -> [num |-> 3, den |-> 4]
      [] thr = 60 -> [num |-> 1, den |-> 4]

SinSq(thr) == [num |-> CosSq(thr).den - CosSq(thr).num, den |-> CosSq(thr).den]

\* Variant of get_position that tests the right-angle region first
get_position_right_angle_first(node_xy, leg1, leg2, angle_threshold, right_lane_drive) ==
    LET v1 == get_dir_vector(node_xy, leg1)
        v2 == get_dir_vector(node_xy, leg2)
        dot == v1[1] * v2[1] + v1[2] * v2[2]
        magsq == (v1[1] * v1[1] + v1[2] * v1[2]) * (v2[1] * v2[1] + v2[2] * v2[2])
        cross == v1[1] * v2[2] - v1[2] * v2[1]
    IN IF magsq = 0 THEN "FAR"
       ELSE IF dot * dot * SinSq(angle_threshold).den < SinSq(angle_threshold).num * magsq
       THEN IF right_lane_drive
            THEN (IF cross < 0 THEN "NEAR" ELSE "FAR")
            ELSE (IF cross > 0 THEN "NEAR" ELSE "FAR")
       ELSE IF dot < 0 /\ dot * dot * CosSq(angle_threshold).den
                            > CosSq(angle_threshold).num * magsq
       THEN "OPP"
       ELSE "FAR"

\* get_position: angle = acos(dot / (mag1 * mag2)) in degrees;
\*   angle > 180 - t      iff  dot < 0 and dot^2 > cos^2(t) * mag1^2 * mag2^2
\*   abs(angle - 90) < t  iff  dot^2 < sin^2(t) * mag1^2 * mag2^2
get_position(node_xy, leg1, leg2, angle_threshold, right_lane_drive) ==
    LET v1 == get_dir_vector(node_xy, leg1)
        v2 == get_dir_vector(node_xy, leg2)
        dot == v1[1] * v2[1] + v1[2] * v2[2]
        magsq == (v1[1] * v1[1] + v1[2] * v1[2]) * (v2[1] * v2[1] + v2[2] * v2[2])
        cross == v1[1] * v2[2] - v1[2] * v2[1]
    IN IF magsq = 0 THEN "FAR"
       ELSE IF dot < 0 /\ dot * dot * CosSq(angle_threshold).den
                            > CosSq(angle_threshold).num * magsq
       THEN "OPP"
       ELSE IF dot * dot * SinSq(angle_threshold).den < SinSq(angle_threshold).num * magsq
       THEN IF right_lane_drive
            THEN (IF cross < 0 THEN "NEAR" ELSE "FAR")
            ELSE (IF cross > 0 THEN "NEAR" ELSE "FAR")
       ELSE "FAR"

left_variants == {"LEFT", "SLIGHT_LEFT", "SHARP_LEFT", "MERGE_TO_LEFT"}
right_variants == {"RIGHT", "SLIGHT_RIGHT", "SHARP_RIGHT", "MERGE_TO_RIGHT"}

_to_direction(turn, right_lane_drive) ==
    IF turn = "THROUGH" THEN "THRU"
    ELSE IF turn = "REVERSE" THEN "REVERSE"
    ELSE IF turn \in (IF right_lane_drive THEN right_variants ELSE left_variants) THEN "TURN"
    ELSE "CROSS"

NoTallies == [c \in JuncConflict |-> 0]

\* Variant of count_pair_interaction that tallies each conflict type met once
count_pair_interaction_once(node_xy, leg1, leg2, conflict_classifier, angle_threshold, right_lane_drive) ==
    IF leg1.in_turns = None \/ leg2.in_turns = None
    THEN [NoTallies EXCEPT !["NO_CONFLICT"] = 1]
    ELSE LET nbr_pos == get_position(node_xy, leg1, leg2, angle_threshold, right_lane_drive)
         IN [c \in JuncConflict |->
                IF \E t1 \in leg1.in_turns[1], t2 \in leg2.in_turns[1] :
                      get_conflict_type(_to_direction(t1, right_lane_drive),
                                        _to_direction(t2, right_lane_drive),
                                        nbr_pos, conflict_classifier).conflict = c
                THEN 1 ELSE 0]

\* count_pair_interaction: the tallies one call adds to the Counter
count_pair_interaction(node_xy, leg1, leg2, conflict_classifier, angle_threshold, right_lane_drive) ==
    IF leg1.in_turns = None \/ leg2.in_turns = None
    THEN [NoTallies EXCEPT !["NO_CONFLICT"] = 1]
    ELSE LET nbr_pos == get_position(node_xy, leg1, leg2, angle_threshold, right_lane_drive)
         IN [c \in JuncConflict |->
                Cardinality({p \in leg1.in_turns[1] \X leg2.in_turns[1] :
                    get_conflict_type(_to_direction(p[1], right_lane_drive),
                                      _to_direction(p[2], right_lane_drive),
                                      nbr_pos, conflict_classifier).conflict = c})]

\* itertools.combinations(range(n), 2), in its order
combinations(n) ==
    LET Pairs == {p \in (1..n) \X (1..n) : p[1] < p[2]}
        Before(p, q) == p[1] < q[1] \/ (p[1] = q[1] /\ p[2] < q[2])
    IN [k \in 1..Cardinality(Pairs) |->
           CHOOSE p \in Pairs : Cardinality({q \in Pairs : Before(q, p)}) = k - 1]

NodeXY == <<0, 0>>

\* analyze_node: legs = get_legs(G, node_id), ctr = Counter()
GetLegs ==
    /\ legs = None
    /\ legs' = Some(get_legs(node_edges))
    /\ pending' = combinations(Len(get_legs(node_edges)))
    /\ conflict_counter' = NoTallies
    /\ counted' = <<>>
    /\ UNCHANGED <<node_edges, leg_params, lookup>>
    /\ UNCHANGED <<varsJ, varsN, varsB, varsQ, varsE, varsR, varsP>>

\* One round of the loop over itertools.combinations(legs, 2)
CountPairInteraction ==
    /\ legs # None
    /\ pending # <<>>
    /\ LET pair == Head(pending)
           added == count_pair_interaction(NodeXY, legs[1][pair[1]], legs[1][pair[2]],
                                           junc_conflict_classifier,
                                           leg_params.angle_threshold,
                                           leg_params.right_lane_drive)
       IN /\ conflict_counter' = [c \in JuncConflict |-> conflict_counter[c] + added[c]]
          /\ counted' = Append(counted, [pair |-> pair, added |-> added])
    /\ pending' = Tail(pending)
    /\ UNCHANGED <<node_edges, leg_params, legs, lookup>>
    /\ UNCHANGED <<varsJ, varsN, varsB, varsQ, varsE, varsR, varsP>>

\* Neighbours 1..4 of the node at the origin: seen from the east leg the
\* second is at 135 degrees and the third at 90 degrees; the fourth lies on
\* the node itself (an edge of length zero)
LegPoints == << <<1, 0>>, <<-1, 1>>, <<0, 1>>, <<0, 0>> >>

PlainTags == [forward |-> AbsentTag, backward |-> AbsentTag]

\* Edge data: no lane tags; a turn:lanes:forward string of two lanes
LaneDataOfLegs ==
    {[reversed |-> FALSE, turn_lanes |-> PlainTags, lanes |-> PlainTags],
     [reversed |-> FALSE,
      turn_lanes |-> [forward |-> StrTag(<<"left", "|", "through", ";", "right">>),
                      backward |-> AbsentTag],
      lanes |-> PlainTags]}

\* get_legs reads the lane tags of incoming edges only
EdgesAtNode ==
    {e \in {[nbr_id |-> n, nbr_coord |-> LegPoints[n], dir |-> d, data |-> data] :
               n \in 1..Len(LegPoints), d \in {"in", "out"}, data \in LaneDataOfLegs} :
        e.dir = "out" => e.data.turn_lanes = PlainTags}

\* Up to MaxLegEdges edges, parallel edges included, neighbours in id order
EdgeLists ==
    {es \in UNION {[1..k -> EdgesAtNode] : k \in 0..MaxLegEdges} :
        \A i \in 1..Len(es) : \A j \in 1..Len(es) :
            i < j => es[i].nbr_id <= es[j].nbr_id}

PositionThresholds == {JuncNbrPosThresholdDefault, 60}

InitLegs ==
    /\ node_edges \in EdgeLists
    /\ leg_params \in [angle_threshold : PositionThresholds, right_lane_drive : BOOLEAN]
    /\ legs = None
    /\ pending = <<>>
    /\ counted = <<>>
    /\ IdleJ
    /\ IdleC
    /\ IdleN
    /\ IdleB
    /\ IdleQ
    /\ IdleE
    /\ IdleR
    /\ IdleP

NextLegs == GetLegs \/ CountPairInteraction

SpecLegs == InitLegs /\ [][NextLegs]_vars

\* ----------------------------------------------------- lane and width tags
\* turns, lanes, est = _parse_lane_data(data)
ParseLaneData ==
    /\ parsed_lanes = None
    /\ parsed_lanes' = Some(_parse_lane_data(edge_data))
    /\ UNCHANGED <<edge_data, default_lane_width, parsed_width>>
    /\ UNCHANGED <<varsJ, varsC, varsN, varsB, varsQ, varsE, varsR, varsL>>

\* total_width, width_est = _parse_edge_width(data, default_lane_width)
ParseEdgeWidth ==
    /\ parsed_width = None
    /\ parsed_width' = Some(_parse_edge_width(edge_data, default_lane_width))
    /\ UNCHANGED <<edge_data, default_lane_width, parsed_lanes>>
    /\ UNCHANGED <<varsJ, varsC, varsN, varsB, varsQ, varsE, varsR, varsL>>

\* turn:lanes:<side> values: missing, '', one lane, two lanes, a pre-split list
TurnLaneTags ==
    {AbsentTag, StrTag(<<>>), StrTag(<<"through">>),
     StrTag(<<"left", "|", "through", ";", "right">>),
     ListTag(<< <<"left">>, <<"through">>, <<"right">> >>)}

\* lanes:<side> and lanes values: missing, a count, zero, no number, lists
LaneCountTags ==
    {AbsentTag, StrTag(<<"2">>), StrTag(<<"0">>), StrTag(<<"2", ";", "3">>),
     ListTag(<< <<"3">>, <<"2">> >>), ListTag(<< <<"0">>, <<"2">> >>)}

WidthTags == {AbsentTag, StrTag(<<"3.5">>), StrTag(<<"10", "ft">>), StrTag(<<"wide">>)}
EstWidthTags == {AbsentTag, StrTag(<<"16", "'", "3">>)}

\* The side the edge does not run along carries tags of its own
EdgeData ==
    {[reversed |-> r,
      turn_lanes |-> [sd \in {"forward", "backward"} |->
                         IF sd = (IF r THEN "backward" ELSE "forward") THEN t
                         ELSE StrTag(<<"reverse">>)],
      lanes |-> [sd \in {"forward", "backward"} |->
                    IF sd = (IF r THEN "backward" ELSE "forward") THEN l
                    ELSE StrTag(<<"3">>)],
      lanes_tag |-> p, width |-> w, est_width |-> e] :
        r \in BOOLEAN, t \in TurnLaneTags, l \in LaneCountTags,
        p \in {AbsentTag, StrTag(<<"2">>), StrTag(<<"0">>), ListTag(<< <<"2">>, <<"3">> >>)},
        w \in WidthTags, e \in EstWidthTags}

DefaultLaneWidths == {30000, 35000}

InitLanes ==
    /\ edge_data \in EdgeData
    /\ default_lane_width \in DefaultLaneWidths
    /\ parsed_lanes = None
    /\ parsed_width = None
    /\ IdleJ
    /\ IdleC
    /\ IdleN
    /\ IdleB
    /\ IdleQ
    /\ IdleE
    /\ IdleR
    /\ IdleL

NextLanes == ParseLaneData \/ ParseEdgeWidth

SpecLanes == InitLanes /\ [][NextLanes]_vars

\* ----------------------------------------------- a session of the service
\* POST /query and GET /junction in any order on one server: the handlers
\* share local_cache and the collections
\* The graph OSM returns for the query q: a three-way node whose widest
\* deflection angle lies between the default threshold and 120 degrees
QueriedGraph(q) ==
    <<Translate([node |-> NodeAt(NoTag, NoTag),
                 edges |-> <<[nbr |-> NbrPoints[2], dir |-> "out", junction |-> NoTag],
                             [nbr |-> NbrPoints[3], dir |-> "out", junction |-> NoTag],
                             [nbr |-> NbrPoints[5], dir |-> "out", junction |-> NoTag]>>],
                NodeSpacing * q)>>

\* Request bodies: the junction parameters are not part of query_key()
SessionRequests ==
    [overwrite : BOOLEAN,
     junc_ty_angle_threshold : {JuncTyAngleThresholdDefault, 120},
     odd : {DefaultOdd}]

\* POST /query with the body (q, request): query_config_endpoint on the
\* cache, with the objects the cache keys stand for
SessionQuery(q, request, failure) ==
    LET r == query_config_endpoint(cache, q, failure)
    IN /\ cache' = r.cache
       /\ query_resp' = r.resp
       /\ req' = IF r.cache["request"] = Some(q) /\ failure # "validation"
                 THEN request ELSE req
       /\ graph' = IF r.cache["graph"] # cache["graph"] THEN QueriedGraph(q) ELSE graph
       /\ graph_core_nodes' = IF r.cache["graph_core_nodes"] # cache["graph_core_nodes"]
                              THEN Positions(Len(QueriedGraph(q)))
                              ELSE graph_core_nodes
       /\ coll_primary' = IF r.dropped THEN <<>> ELSE coll_primary
       /\ coll_feature' = IF r.dropped THEN <<>> ELSE coll_feature
       /\ db_network_feature' = IF r.dropped THEN <<>> ELSE db_network_feature
       /\ UNCHANGED <<request_json, incompliant_nodes, compliant_geom, resp>>
       /\ UNCHANGED <<db_junction, batch, runs>>
       /\ UNCHANGED <<G, junction_coll, network_feature, ret>>
       /\ UNCHANGED <<varsC, varsE, varsX>>

\* GET /junction: TypeError when no request is cached, or when the graph or
\* the core-node list is missing; else the batch over the cached graph
SessionJunction ==
    IF cache["request"] = None \/ cache["graph"] = None \/ cache["graph_core_nodes"] = None
    THEN /\ runs < MaxRuns
         /\ runs' = runs + 1
         /\ batch' = [ran |-> TRUE, raised |-> TRUE, results |-> <<>>]
         /\ UNCHANGED <<graph, graph_core_nodes, db_junction, db_network_feature>>
         /\ UNCHANGED <<varsJ, varsC, varsN, varsQ, varsE, varsX>>
    ELSE JunctionMain

InitSession ==
    /\ IdleJ
    /\ IdleC
    /\ IdleN
    /\ IdleB
    /\ IdleQ
    /\ IdleE
    /\ IdleX

NextSession ==
    \/ \E q \in Queries, request \in SessionRequests, failure \in Failures :
          SessionQuery(q, request, failure)
    \/ SessionJunction

SpecSession == InitSession /\ [][NextSession]_vars

\* ======================================================================
\* Claims about junction classification (SpecJunction)
\* ======================================================================
\* A junction-category tag value that names a JunctionType
RecognizedValue(raw) ==
    \E i \in 1..Len(raw.vals) : NormalizeTag(raw.vals[i]) \in JunctionType

\* The node's own tag: junction, or highway when junction is absent
NodeTag(g) == IF g.node.junction # NoTag THEN g.node.junction ELSE g.node.highway

RecognizedEdgeTag(g) == \E i \in 1..Len(g.edges) : RecognizedValue(g.edges[i].junction)
RecognizedNodeTag(g) == RecognizedValue(NodeTag(g))
ListValuedEdgeTag(g) == \E i \in 1..Len(g.edges) : g.edges[i].junction.list

Degree(g) == Cardinality({g.edges[i].nbr : i \in 1..Len(g.edges)})

\* The junction type of the record the run returned, None when it returned none
ReturnedType == IF ret.doc = None THEN None ELSE Some(ret.doc[1].properties.metadata.junc_type)

\* Interior angle at n between the legs to p and q
InteriorAngle(p, n, q) ==
    LET a == <<p[1] - n[1], p[2] - n[2]>>
        b == <<q[1] - n[1], q[2] - n[2]>>
    IN [dot |-> a[1] * b[1] + a[2] * b[2],
        nsq |-> (a[1] * a[1] + a[2] * a[2]) * (b[1] * b[1] + b[2] * b[2])]

LargestInteriorAngleExceeds(g, thr) ==
    \E p, q \in {g.edges[i].nbr : i \in 1..Len(g.edges)} :
        p # q /\ ~AngleLeq(InteriorAngle(p, g.node.xy, q), thr)

ThreeWayUntagged ==
    /\ ret.ran /\ ~ret.raised
    /\ Degree(G) = 3
    /\ ~RecognizedEdgeTag(G) /\ ~RecognizedNodeTag(G)

\* C1: a node with exactly three distinct neighbours and no recognized tag is
\* classified T_JUNCTION when its largest interior angle exceeds the
\* threshold and Y_JUNCTION when that angle is at most the threshold.
C1_TYByLargestInteriorAngle ==
    ThreeWayUntagged =>
        ReturnedType =
            IF LargestInteriorAngleExceeds(G, req.junc_ty_angle_threshold)
            THEN Some("T_JUNCTION") ELSE Some("Y_JUNCTION")

\* C2: the three rules apply in the order edge tag, node tag, heuristic; a
\* recognized junction tag on any incident edge decides the type whatever the
\* node tag and degree, and otherwise a recognized node tag decides it
\* whatever the degree.  (Edge tags are strings here: a list-valued edge tag
\* is left out of the statement.)
C2_TagRulesTakePrecedence ==
    (ret.ran /\ ~ListValuedEdgeTag(G)) =>
        /\ RecognizedEdgeTag(G) =>
              /\ ~ret.raised
              /\ \E i \in 1..Len(G.edges) :
                    /\ RecognizedValue(G.edges[i].junction)
                    /\ ReturnedType = Some(NormalizeTag(G.edges[i].junction.vals[1]))
        /\ (~RecognizedEdgeTag(G) /\ RecognizedNodeTag(G)) =>
              /\ ~ret.raised
              /\ \E i \in 1..Len(NodeTag(G).vals) :
                    ReturnedType = Some(NormalizeTag(NodeTag(G).vals[i]))

\* C3: with no recognized tag the result depends on the degree alone when
\* the degree is not 3: degree <= 2 gives None, and the run produces no
\* record for the node; degree >= 4 gives CROSSROAD, whatever the neighbour
\* coordinates and the threshold.
C3_DegreeDecidesOutsideThree ==
    (ret.ran /\ ~ret.raised /\ ~RecognizedEdgeTag(G) /\ ~RecognizedNodeTag(G)) =>
        /\ Degree(G) <= 2 =>
              ret.doc = None /\ junction_coll = None /\ network_feature = {}
        /\ Degree(G) >= 4 => ReturnedType = Some("CROSSROAD")

\* C3 witness: a four-way node whose neighbours all lie within a half-plane
\* (no leg opposite another) has been classified CROSSROAD
C3_Witness ==
    /\ ret.ran /\ ~ret.raised
    /\ ~RecognizedEdgeTag(G) /\ ~RecognizedNodeTag(G)
    /\ Degree(G) >= 4
    /\ \A i \in 1..Len(G.edges) : G.edges[i].nbr[2] >= 0
    /\ ReturnedType = Some("CROSSROAD")

\* C22: classification never raises: whatever the junction tags of the
\* incident edges and the junction / highway tags of the node (absent,
\* unrecognized, single-valued or list-valued), the run ends with a junction
\* type or with none, not with an exception.
C22_ClassificationNeverRaises ==
    ret.ran => ~ret.raised

\* C23: the edge-tag rule scans incoming as well as outgoing edges: when some
\* edge that starts or ends at the node carries a (single-valued) junction tag
\* whose normalized name is a JunctionType, the node is classified with the
\* type of such an edge.
C23_EdgeRuleScansIncidentEdges ==
    (ret.ran /\ ~ListValuedEdgeTag(G) /\ RecognizedEdgeTag(G))
        => \E i \in 1..Len(G.edges) :
              /\ RecognizedValue(G.edges[i].junction)
              /\ ReturnedType = Some(NormalizeTag(G.edges[i].junction.vals[1]))

\* ======================================================================
\* Claims about the conflict rule table (SpecConflict)
\* ======================================================================
MatchingEntries(this_move, other_move, nbr_pos) ==
    {i \in 1..Len(junc_conflict_classifier) :
        /\ junc_conflict_classifier[i].this_move = this_move
        /\ junc_conflict_classifier[i].other_move = other_move
        /\ junc_conflict_classifier[i].nbr_pos = nbr_pos}

\* C4: the default table has exactly one entry for every (this_move,
\* other_move, nbr_pos) triple of the 4x4x3 domain, and a lookup returns the
\* conflict of that entry, never the NO_CONFLICT fallback.
C4_DefaultTableTotal ==
    /\ \A a \in Direction, b \in Direction, p \in NbrPosition :
          Cardinality(MatchingEntries(a, b, p)) = 1
    /\ lookup.called =>
          /\ lookup.entry # 0
          /\ MatchingEntries(lookup.this_move, lookup.other_move, lookup.nbr_pos)
                = {lookup.entry}
          /\ lookup.conflict = junc_conflict_classifier[lookup.entry].conflict
          /\ lookup.conflict \in JuncConflict

\* C4 witness: the triple of the table's last entry has been looked up and
\* tallied as INTERSECT
C4_Witness ==
    /\ lookup.called
    /\ lookup.this_move = "REVERSE" /\ lookup.other_move = "REVERSE" /\ lookup.nbr_pos = "FAR"
    /\ lookup.entry = Len(junc_conflict_classifier)
    /\ conflict_counter["INTERSECT"] >= 1

\* ======================================================================
\* Properties of the ODD filter (specification SpecNetwork)
\* ======================================================================
OddInForce == SelectOdd(request_json, req)

HasEntry(lst, text) == \E i \in 1..Len(lst.items) : lst.items[i] = PyStr(text)

AllowedJunctionTypes == Get(OddInForce[1], "junction_type", AllList)
AllowedConflicts == Get(OddInForce[1], "junction_conflict", AllList)

\* /network has run with an ODD whose junction_type and junction_conflict
\* are lists, over a collection holding one node whose only feature is a
\* junction feature with metadata
JunctionNodeCase ==
    /\ resp.called
    /\ OddInForce # None
    /\ IsList(AllowedJunctionTypes)
    /\ IsList(AllowedConflicts)
    /\ Len(coll_feature) = 1
    /\ Len(coll_feature[1].features) = 1
    /\ coll_feature[1].features[1].feature_type = "junction"
    /\ coll_feature[1].features[1].metadata # None

TheJunction == coll_feature[1].features[1].metadata[1]

NodeMarked == coll_feature[1]._id \in incompliant_nodes

TypeUnknown == TheJunction.junc_type.t \in {"absent", "none"}

TypeAllowed ==
    /\ TheJunction.junc_type.t = "str"
    /\ HasEntry(AllowedJunctionTypes, TheJunction.junc_type.s)

TypeGround == ~HasEntry(AllowedJunctionTypes, "ALL") /\ (TypeUnknown \/ ~TypeAllowed)

NonzeroConflicts ==
    {TheJunction.conflict_counter[i].name :
        i \in {i \in 1..Len(TheJunction.conflict_counter) :
                  TheJunction.conflict_counter[i].count # 0}}

ConflictGround ==
    /\ ~HasEntry(AllowedConflicts, "ALL")
    /\ \E name \in NonzeroConflicts : ~HasEntry(AllowedConflicts, name)

\* C5: with no junction-type ground, a node is marked incompliant exactly
\* when the junction_conflict list lacks ALL and some conflict type with a
\* nonzero count is not in the list; a node whose nonzero conflict types
\* are all in the list is not marked.
C5_ConflictGroundExact ==
    (JunctionNodeCase /\ ~TypeGround) => (NodeMarked <=> ConflictGround)

\* C6: with no conflict counted at the node or no conflict restriction, a
\* node is marked incompliant exactly when the junction_type list lacks ALL
\* and the recorded type is missing or not in the list; with ALL in the
\* list no type, known or unknown, marks the node.
C6_TypeGroundExact ==
    (JunctionNodeCase /\ (NonzeroConflicts = {} \/ HasEntry(AllowedConflicts, "ALL")))
        => /\ NodeMarked <=> TypeGround
           /\ HasEntry(AllowedJunctionTypes, "ALL") => ~NodeMarked

C6_Witness ==
    /\ JunctionNodeCase
    /\ HasEntry(AllowedConflicts, "ALL")
    /\ NonzeroConflicts # {}
    /\ ~HasEntry(AllowedJunctionTypes, "ALL")
    /\ AllowedJunctionTypes.items # <<>>
    /\ TypeUnknown
    /\ NodeMarked

TouchesIncompliant(doc) ==
    doc._id[1] \in incompliant_nodes \/ doc._id[2] \in incompliant_nodes

PassesEdgeLevel(doc) == check_single_edge_odd_compliance(OddInForce[1], doc.metadata)

\* The geometries, in order, of the edges that pass edge-level compliance
\* and touch no incompliant node
ExpectedGeometries ==
    LET kept == SelectSeq(coll_primary,
                          LAMBDA doc : ~TouchesIncompliant(doc) /\ PassesEdgeLevel(doc))
    IN [i \in 1..Len(kept) |-> kept[i].geometry]

InputLines == SelectSeq(compliant_geom, LAMBDA geom : geom.type = "LineString")

Vertices ==
    UNION {{InputLines[k].coords[i] : i \in 1..Len(InputLines[k].coords)} :
              k \in 1..Len(InputLines)}

UnitSegments ==
    UNION {{{InputLines[k].coords[i], InputLines[k].coords[i + 1]} :
               i \in 1..(Len(InputLines[k].coords) - 1)} : k \in 1..Len(InputLines)}

\* No unit segment leaves C
Closed(C) == \A e \in UnitSegments : e \cap C # {} => e \subseteq C

\* The connected components: the minimal non-empty closed vertex sets
Components ==
    {C \in SUBSET Vertices :
        /\ C # {}
        /\ Closed(C)
        /\ \A D \in SUBSET C : (D # {} /\ D # C) => ~Closed(D)}

SegmentsIn(C) == {e \in UnitSegments : e \subseteq C}

\* Summed length of axis-parallel segments
RECURSIVE TotalLength(_)
TotalLength(S) ==
    IF S = {} THEN 0
    ELSE LET e == CHOOSE x \in S : TRUE
             xs == {p[1] : p \in e}
             ys == {p[2] : p \in e}
             span(V) == (CHOOSE a \in V : \A c \in V : c <= a)
                        - (CHOOSE b \in V : \A c \in V : b <= c)
         IN span(xs) + span(ys) + TotalLength(S \ {e})

\* The position of the first input line that lies in C
FirstLine(C) ==
    CHOOSE k \in 1..Len(InputLines) :
        /\ InputLines[k].coords[1] \in C
        /\ \A j \in 1..(k - 1) : InputLines[j].coords[1] \notin C

\* C is returned: the answer holds exactly its unit segments
Returns(C) == resp.value = Some(SegmentsIn(C))

\* C8: the extractor returns nothing when no LineString was supplied, and
\* otherwise exactly the unit segments of one connected component whose
\* summed length no other component exceeds, the first encountered among
\* those of equal maximal length; of two components of lengths 10 and 25
\* the one of length 25 is returned.
C8_LongestComponentReturned ==
    resp.called =>
        IF InputLines = <<>> THEN resp.value = None
        ELSE /\ \E C \in Components :
                   /\ Returns(C)
                   /\ \A D \in Components :
                          /\ TotalLength(SegmentsIn(D)) <= TotalLength(SegmentsIn(C))
                          /\ (D # C /\ TotalLength(SegmentsIn(D)) = TotalLength(SegmentsIn(C)))
                                 => FirstLine(C) < FirstLine(D)
             /\ \A C \in Components, D \in Components :
                    (/\ Components = {C, D}
                     /\ TotalLength(SegmentsIn(C)) = 10
                     /\ TotalLength(SegmentsIn(D)) = 25) => Returns(D)

\* The length-10 set comes first and the length-25 set is returned
C8_Witness ==
    /\ resp.called
    /\ \E C \in Components, D \in Components :
          /\ Components = {C, D}
          /\ TotalLength(SegmentsIn(C)) = 10
          /\ TotalLength(SegmentsIn(D)) = 25
          /\ FirstLine(C) < FirstLine(D)
          /\ Returns(D)

\* ---- boolean flags
\* /network has run with an ODD over one edge and no node features
EdgeCase ==
    /\ resp.called
    /\ OddInForce # None
    /\ coll_feature = <<>>
    /\ Len(coll_primary) = 1

TheEdge == coll_primary[1].metadata

Kept == compliant_geom # <<>>

CompliantUnder(key, policy) ==
    check_single_edge_odd_compliance([OddInForce[1] EXCEPT ![key] = policy], TheEdge)

ScalarAndListAgree(key) ==
    \A b \in BOOLEAN :
        /\ CompliantUnder(key, PyBool(b)) = CompliantUnder(key, PyList(<<PyBool(b)>>))
        /\ OddInForce[1][key] = PyList(<<PyBool(b)>>) => (Kept <=> CompliantUnder(key, PyBool(b)))

\* C9: for either boolean flag, an edge is compliant under the policy [b]
\* exactly when it is under the policy b; under oneway = [False] an edge
\* whose oneway flag is false is not compliant.
C9_ScalarAndListPolicyAgree ==
    EdgeCase =>
        /\ ScalarAndListAgree("oneway")
        /\ ScalarAndListAgree("is_major_road")
        /\ (/\ OddInForce[1]["oneway"] = PyList(<<PyBool(FALSE)>>)
            /\ TheEdge["oneway"] = PyBool(FALSE)) => ~Kept

C9_Witness ==
    /\ EdgeCase
    /\ OddInForce[1]["oneway"] = PyList(<<PyBool(FALSE)>>)
    /\ OddInForce[1]["is_major_road"] = Absent
    /\ OddInForce[1]["highway_type"] = Absent
    /\ TheEdge["oneway"] = PyBool(FALSE)
    /\ ~Kept

\* The oneway policy is b, as a scalar or as a single-element list
OnewayPolicyIs(b) == OddInForce[1]["oneway"] \in {PyBool(b), PyList(<<PyBool(b)>>)}

\* C10 as stated: a kept edge's oneway flag equals the oneway policy.
C10_OnewayMatchesPolicy ==
    \A b \in BOOLEAN :
        (EdgeCase /\ OnewayPolicyIs(b) /\ TheEdge["oneway"].t = "bool" /\ Kept)
            => TheEdge["oneway"] = PyBool(b)

\* C10 amended: an edge that is compliant with the oneway policy left out
\* is rejected for the oneway policy exactly when the policy is false and
\* the edge's own oneway flag is false or missing; under the policy true,
\* or with no policy, no edge is rejected for it.
C10_OnewayRejectsOnlyTwoWayUnderFalse ==
    (/\ EdgeCase
     /\ OddInForce[1]["oneway"] = Absent \/ \E b \in BOOLEAN : OnewayPolicyIs(b)
     /\ CompliantUnder("oneway", Absent))
        => (Kept <=> ~(OnewayPolicyIs(FALSE) /\ TheEdge["oneway"] # PyBool(TRUE)))

\* The policy is false, the edge is one-way, and the edge is kept
C10_Witness ==
    /\ EdgeCase
    /\ OnewayPolicyIs(FALSE)
    /\ TheEdge["oneway"] = PyBool(TRUE)
    /\ Kept

\* ---- numeric thresholds
\* The edge is exactly as compliant as it is with the policy of key left out
NotRejectedFor(key) == Kept <=> CompliantUnder(key, Absent)

NoData(key) == TheEdge[key].t \in {"absent", "none"}

IsNumeric(val) ==
    \/ val.t = "num"
    \/ /\ val.t = "list"
       /\ val.items # <<>>
       /\ \A i \in 1..Len(val.items) : val.items[i].t = "num"

Numbers(val) ==
    IF val.t = "num" THEN {val.n} ELSE {val.items[i].n : i \in 1..Len(val.items)}

Least(S) == CHOOSE m \in S : \A x \in S : m <= x

TooFast ==
    /\ IsNumeric(OddInForce[1]["speed_limit"])
    /\ Least(Numbers(TheEdge["speed_limit"])) > Least(Numbers(OddInForce[1]["speed_limit"]))

TooNarrow ==
    /\ IsNumeric(OddInForce[1]["lane_width"])
    /\ Least(Numbers(TheEdge["lane_width"])) < Least(Numbers(OddInForce[1]["lane_width"]))

NumericCase ==
    /\ EdgeCase
    /\ IsNumeric(TheEdge["speed_limit"])
    /\ IsNumeric(TheEdge["lane_width"])
    /\ \A key \in {"speed_limit", "lane_width"} :
           OddInForce[1][key] = Absent \/ IsNumeric(OddInForce[1][key])
    /\ check_single_edge_odd_compliance(
           [OddInForce[1] EXCEPT !["speed_limit"] = Absent, !["lane_width"] = Absent],
           TheEdge)

\* C12: an edge with known speed limits and lane widths is rejected exactly
\* when the least of its speed limits exceeds the least number of the ODD's
\* speed_limit, or the least of its lane widths is below the least number
\* of the ODD's lane_width; under the ceiling 0 every edge with a positive
\* speed limit is rejected.
C12_MinimumAgainstThreshold ==
    NumericCase =>
        /\ ~Kept <=> (TooFast \/ TooNarrow)
        /\ (/\ OddInForce[1]["speed_limit"] = PyNum(0)
            /\ Least(Numbers(TheEdge["speed_limit"])) > 0) => ~Kept

\* The least of the edge's speeds lies between the ODD's two ceilings
C12_Witness ==
    /\ NumericCase
    /\ OddInForce[1]["speed_limit"] = PyList(<<PyNum(70), PyNum(50)>>)
    /\ TheEdge["speed_limit"] = PyNum(60)
    /\ ~TooNarrow
    /\ ~Kept

\* ---- allow-lists
IsAllowList(val) == val.t = "list" /\ ~HasEntry(val, "ALL")

GivesAll(val) == val = Absent \/ val = PyStr("ALL") \/ (val.t = "list" /\ HasEntry(val, "ALL"))

\* The edge's lane markings all occur in the ODD's lane_markings list
MarkingsAllowed ==
    /\ TheEdge["lane_markings_forward"].t = "list"
    /\ \A i \in 1..Len(TheEdge["lane_markings_forward"].items) :
           \E j \in 1..Len(OddInForce[1]["lane_markings"].items) :
               TheEdge["lane_markings_forward"].items[i] = OddInForce[1]["lane_markings"].items[j]

\* C13: under a lane_markings allow-list without ALL an edge passes the
\* lane-marking check exactly when all its lane markings are in the list.
C13_LaneMarkingsWithinAllowList ==
    (/\ EdgeCase
     /\ IsAllowList(OddInForce[1]["lane_markings"])
     /\ CompliantUnder("lane_markings", Absent))
        => (Kept <=> MarkingsAllowed)

\* C14: under a highway_type allow-list without ALL an edge passes the
\* highway check exactly when its highway type is in the list, an edge
\* without highway type failing; with highway_type omitted or ALL no edge
\* is rejected by the check.
C14_HighwayTypeInAllowList ==
    (EdgeCase /\ CompliantUnder("highway_type", Absent))
        => /\ IsAllowList(OddInForce[1]["highway_type"])
                  => (Kept <=> /\ TheEdge["highway_type"].t = "str"
                               /\ HasEntry(OddInForce[1]["highway_type"],
                                           TheEdge["highway_type"].s))
           /\ GivesAll(OddInForce[1]["highway_type"]) => Kept

\* A motorway edge under the allow-list [residential] is dropped
C14_Witness ==
    /\ EdgeCase
    /\ CompliantUnder("highway_type", Absent)
    /\ OddInForce[1]["highway_type"] = PyList(<<PyStr("residential")>>)
    /\ TheEdge["highway_type"] = PyStr("motorway")
    /\ ~Kept

\* ---- facility filters
\* /network has run with an ODD over one node's feature document
OneNodeCase ==
    /\ resp.called
    /\ OddInForce # None
    /\ Len(coll_feature) = 1

Carried == {coll_feature[1].features[i] : i \in 1..Len(coll_feature[1].features)}

IsFacility(f) == f.feature_type \in {"school_zone", "parking_lot", "traffic_signals"}

\* The ODD has the facility's filter and the filter's list lacks true
FilterExcludes(facility) ==
    /\ OddInForce[1][facility] # Absent
    /\ \A i \in 1..Len(OddInForce[1][facility].items) :
           OddInForce[1][facility].items[i] # PyBool(TRUE)

\* The junction feature's own verdict, for a feature without conflicts
JunctionExcluded(f) ==
    /\ ~HasEntry(AllowedJunctionTypes, "ALL")
    /\ ~(f.metadata[1].junc_type.t = "str"
         /\ HasEntry(AllowedJunctionTypes, f.metadata[1].junc_type.s))

\* C15: a node is incompliant exactly when, for some facility feature it
\* carries, the ODD has that facility's filter with a list lacking true, or
\* its junction feature is excluded by the junction rules; a filter that is
\* absent or includes true marks no node, and no facility's filter bears on
\* another facility or on the junction feature.
C15_FacilityFiltersIndependent ==
    (/\ OneNodeCase
     /\ \A f \in Carried :
            \/ IsFacility(f)
            \/ /\ f.feature_type = "junction"
               /\ f.metadata # None
               /\ f.metadata[1].conflict_counter = <<>>)
        => (NodeMarked <=>
               \E f \in Carried :
                   \/ IsFacility(f) /\ FilterExcludes(f.feature_type)
                   \/ f.feature_type = "junction" /\ JunctionExcluded(f))

\* A node with a parking lot and a school zone, the school zones excluded
\* and the parking lots admitted, is marked; the same node would not be
\* under the parking_lot filter alone
C15_Witness ==
    /\ OneNodeCase
    /\ {f.feature_type : f \in Carried} = {"school_zone", "parking_lot"}
    /\ OddInForce[1]["school_zone"] = PyList(<<PyBool(FALSE)>>)
    /\ OddInForce[1]["parking_lot"] = PyList(<<PyBool(TRUE)>>)
    /\ NodeMarked

\* ---- ALL
AllPrimaryGeometries == [i \in 1..Len(coll_primary) |-> coll_primary[i].geometry]

OnlyAll(keys) ==
    /\ \A k \in OddKeys : OddInForce[1][k] \in {Absent, PyStr("ALL"), AllList}
    /\ \A k \in OddKeys \ keys : OddInForce[1][k] = Absent

\* Every junction feature has the metadata the junction extractor writes
JunctionsDescribed ==
    \A i \in 1..Len(coll_feature) : \A j \in 1..Len(coll_feature[i].features) :
        coll_feature[i].features[j].feature_type = "junction"
            => coll_feature[i].features[j].metadata # None

\* C16: an ODD whose attributes are ALL, as the literal or as the list
\* ["ALL"], puts no node into the incompliant set and rejects no edge, so
\* that the compliant edges are those of a run without ODD.
C16_AllRestrictsNothing ==
    (resp.called /\ OddInForce # None /\ JunctionsDescribed /\ OnlyAll(OddKeys))
        => /\ incompliant_nodes = {}
           /\ compliant_geom = AllPrimaryGeometries

\* =========================================================================
\* Claims about the junction batch (SpecBatch)
\* =========================================================================
CoreNode(k) == graph[graph_core_nodes[k]]

\* The node's own data classify to a junction type without an exception
Analysable(k) ==
    LET c == Classify(CoreNode(k), req.junc_ty_angle_threshold)
    IN ~c.raised /\ c.jt # None

Fails(k) == Classify(CoreNode(k), req.junc_ty_angle_threshold).raised

IsReturned(k) ==
    \E j \in 1..Len(batch.results) :
        batch.results[j].properties.metadata.node_coords = CoreNode(k).node.xy

IsPersisted(k) ==
    /\ find_one(db_junction, CoreNode(k).node.xy) # None
    /\ \E i \in 1..Len(db_network_feature) : db_network_feature[i]._id = graph_core_nodes[k]

\* C17: a node whose analysis fails does not abort the batch: after a batch
\* over a list in which some node fails, the record of every other node that
\* classifies to a junction is among the returned results and is persisted in
\* the junction collection and in network_feature.
C17_FailureIsolatedPerNode ==
    (batch.ran /\ \E f \in 1..Len(graph_core_nodes) : Fails(f))
        => \A k \in 1..Len(graph_core_nodes) :
              Analysable(k) => IsReturned(k) /\ IsPersisted(k)

NoDuplicate(coll) ==
    \A i \in 1..Len(coll) : \A j \in 1..Len(coll) : coll[i]._id = coll[j]._id => i = j

\* One record per coordinate, one document per node id, no feature twice
NoDuplicateEntry ==
    /\ NoDuplicate(db_junction)
    /\ NoDuplicate(db_network_feature)
    /\ \A d \in 1..Len(db_network_feature) :
          LET features == db_network_feature[d].features
          IN \A i \in 1..Len(features) : \A j \in 1..Len(features) :
                features[i] = features[j] => i = j

BatchStep == runs' = runs + 1

\* With overwrite false the record stored for a node's coordinate is the one
\* returned, and it stays in the collection as it was
StoredRecordReused ==
    \A k \in 1..Len(graph_core_nodes) :
        LET saved == find_one(db_junction, CoreNode(k).node.xy)
        IN saved # None
              => /\ \E j \in 1..Len(batch'.results) : batch'.results[j] = saved[1]
                 /\ find_one(db_junction', CoreNode(k).node.xy) = saved

\* C18: the junction batch is an idempotent upsert: a batch run after the
\* first one leaves the junction collection and network_feature as they were,
\* no coordinate has two records, no node id two documents and no document a
\* feature twice, for either value of overwrite; with overwrite false a stored
\* record is returned and is not rewritten.
C18_IdempotentUpsert ==
    /\ [][BatchStep => /\ runs >= 1 => /\ db_junction' = db_junction
                                       /\ db_network_feature' = db_network_feature
                       /\ (~req.overwrite /\ ~batch'.raised) => StoredRecordReused]_vars
    /\ []NoDuplicateEntry

C18_Witness ==
    /\ runs >= 2
    /\ ~batch.raised
    /\ ~req.overwrite
    /\ Len(db_junction) >= 2
    /\ \E i \in 1..Len(db_junction) : db_junction[i] = StoredJunction(db_junction[i]._id)
    /\ \E d \in 1..Len(db_network_feature) : db_network_feature[d].features # <<>>

\* =========================================================================
\* Claims about the session caches (SpecQuery)
\* =========================================================================
\* C19: the caches are replaced together: whenever a query key is cached, the
\* cached graph, core-node list and feature set were built for that same
\* query, whether the last /query returned or failed partway.
C19_CachesBelongToOneQuery ==
    cache["query_key"] # None
        => \A k \in {"graph", "graph_core_nodes", "gdf"} : cache[k] = cache["query_key"]

\* =========================================================================
\* Claims about the feature extractors (SpecExtract)
\* =========================================================================
FeaturesOf(coll, node_id) ==
    IF \E d \in 1..Len(coll) : coll[d]._id = node_id
    THEN coll[CHOOSE d \in 1..Len(coll) : coll[d]._id = node_id].features
    ELSE <<>>

HasTag(coll, node_id, feature_type) ==
    \E i \in 1..Len(FeaturesOf(coll, node_id)) :
        FeaturesOf(coll, node_id)[i].feature_type = feature_type

\* Every node the last extractor identified carries that extractor's tag in
\* network_feature
IdentifiedAreTagged ==
    \A j \in 1..Len(extracted.nodes) :
        HasTag(db_network_feature, extracted.nodes[j], extracted.extractor)

\* A step removes no tag from network_feature
TagsKept ==
    \A d \in 1..Len(db_network_feature) :
        \A i \in 1..Len(db_network_feature[d].features) :
            HasTag(db_network_feature', db_network_feature[d]._id,
                   db_network_feature[d].features[i].feature_type)

\* C20: every extractor (junction, school zone, parking lot, traffic signal)
\* accumulates into network_feature: after it has run, each node it identified
\* has its tag in the node's network_feature document, and no step of any
\* extractor removes a tag that was there.
C20_ExtractorsAccumulate ==
    /\ []IdentifiedAreTagged
    /\ [][TagsKept]_vars

\* =========================================================================
\* Claims about the exported junction record (SpecRecord)
\* =========================================================================
CounterMap(ctr) == {<<ctr[i].key, ctr[i].count>> : i \in 1..Len(ctr)}

\* C21: the junction type and the conflict-count map the ODD filter reads
\* from the exported feature are those the analysis computed (same conflict
\* types, same counts), and validating the exported document a second time
\* leaves its properties as they were.
C21_RecordRoundTrip ==
    /\ read_back # None
          => /\ read_back[1].junction_type = junction_record.junction_type
             /\ CounterMap(read_back[1].ctr) = CounterMap(junction_record.ctr)
    /\ revalidated # None => revalidated = exported

C21_Witness ==
    /\ read_back # None
    /\ revalidated # None
    /\ Len(junction_record.ctr) >= 2

\* =========================================================================
\* Claims about the legs of a node and their pairwise counting (SpecLegs)
\* =========================================================================
Total(tallies) == tallies["INTERSECT"] + tallies["MERGE"] + tallies["NO_CONFLICT"]

\* What one pair of legs is said to add: 1 when either leg's movements are
\* null, else one tally per element of the product of the movement sets
PairWeight(leg1, leg2) ==
    IF leg1.in_turns = None \/ leg2.in_turns = None THEN 1
    ELSE Cardinality(leg1.in_turns[1]) * Cardinality(leg2.in_turns[1])

RECURSIVE SumWeights(_, _)
SumWeights(ls, log) ==
    IF log = <<>> THEN 0
    ELSE PairWeight(ls[Head(log).pair[1]], ls[Head(log).pair[2]])
         + SumWeights(ls, Tail(log))

\* C24: the pairs counted so far and the pairs still to count are together
\* every unordered pair of distinct legs, each once; a pair with a leg without
\* known incoming movements added exactly 1 to NO_CONFLICT and nothing else;
\* any other pair added one tally per element of the product of the two
\* movement sets; the Counter sums to the sum of those weights.
C24_PairwiseCounting ==
    legs # None =>
        LET ls == legs[1]
            visited == [i \in 1..Len(counted) |-> counted[i].pair] \o pending
        IN /\ {visited[i] : i \in 1..Len(visited)}
                 = {p \in (1..Len(ls)) \X (1..Len(ls)) : p[1] < p[2]}
           /\ \A i \in 1..Len(visited) : \A j \in 1..Len(visited) :
                 visited[i] = visited[j] => i = j
           /\ \A i \in 1..Len(counted) :
                 LET a == ls[counted[i].pair[1]]
                     b == ls[counted[i].pair[2]]
                 IN IF a.in_turns = None \/ b.in_turns = None
                    THEN counted[i].added = [NoTallies EXCEPT !["NO_CONFLICT"] = 1]
                    ELSE Total(counted[i].added)
                            = Cardinality(a.in_turns[1] \X b.in_turns[1])
           /\ Total(conflict_counter) = SumWeights(ls, counted)

C24_Witness ==
    /\ legs # None
    /\ pending = <<>>
    /\ \E i \in 1..Len(counted) :
          \/ legs[1][counted[i].pair[1]].in_turns = None
          \/ legs[1][counted[i].pair[2]].in_turns = None
    /\ \E i \in 1..Len(counted) :
          /\ legs[1][counted[i].pair[1]].in_turns # None
          /\ legs[1][counted[i].pair[2]].in_turns # None
          /\ Total(counted[i].added) >= 6

EdgesOf(dir) == {i \in 1..Len(node_edges) : node_edges[i].dir = dir}

\* C25: no two legs of a node share a neighbour id; a neighbour with an edge
\* neighbour -> node has a leg with incoming movements; a neighbour reached
\* only by edges node -> neighbour has a leg whose incoming movements are
\* null; parallel edges between the node and a neighbour included.
C25_LegsDedupByNeighbour ==
    legs # None =>
        LET ls == legs[1] IN
        /\ \A i \in 1..Len(ls) : \A j \in 1..Len(ls) :
              ls[i].nbr_id = ls[j].nbr_id => i = j
        /\ \A e \in EdgesOf("in") :
              \E i \in 1..Len(ls) : /\ ls[i].nbr_id = node_edges[e].nbr_id
                                    /\ ls[i].in_turns # None
        /\ \A e \in EdgesOf("out") :
              (\A f \in EdgesOf("in") : node_edges[f].nbr_id # node_edges[e].nbr_id)
                 => \E i \in 1..Len(ls) : /\ ls[i].nbr_id = node_edges[e].nbr_id
                                          /\ ls[i].in_turns = None

\* The angle between the departure vectors of two legs, in the exact terms
\* the decision needs: the sign of the dot product and the squared cosine
\* dot^2 / magsq, compared with cos^2 and sin^2 of the threshold
Departure(leg) == <<leg.nbr_coord[1] - NodeXY[1], leg.nbr_coord[2] - NodeXY[2]>>
DotOf(a, b) == Departure(a)[1] * Departure(b)[1] + Departure(a)[2] * Departure(b)[2]
CrossOf(a, b) == Departure(a)[1] * Departure(b)[2] - Departure(a)[2] * Departure(b)[1]
MagSqOf(a, b) == DotOf(a, a) * DotOf(b, b)

\* angle > 180 - thr
Opposite(a, b, thr) ==
    /\ DotOf(a, b) < 0
    /\ DotOf(a, b) * DotOf(a, b) * CosSq(thr).den > CosSq(thr).num * MagSqOf(a, b)

\* |angle - 90| < thr
NearRightAngle(a, b, thr) ==
    DotOf(a, b) * DotOf(a, b) * SinSq(thr).den < SinSq(thr).num * MagSqOf(a, b)

PositionOf(a, b, thr, rht) == get_position(NodeXY, a, b, thr, rht)

\* C27: for every two legs of the node, every threshold and both traffic
\* sides: FAR when either departure vector has zero length; else OPP when the
\* angle exceeds 180 - threshold, whatever the other test says; else, when
\* |angle - 90| < threshold, NEAR iff cross < 0 under right-hand traffic and
\* NEAR iff cross > 0 under left-hand traffic, FAR otherwise, so that
\* switching the traffic side swaps NEAR and FAR for a non-zero cross product;
\* else FAR.
C27_PositionDecision ==
    legs # None =>
        \A i \in 1..Len(legs[1]) : \A j \in 1..Len(legs[1]) :
            LET a == legs[1][i]
                b == legs[1][j]
                thr == leg_params.angle_threshold
                rht == leg_params.right_lane_drive
                pos == PositionOf(a, b, thr, rht)
            IN /\ pos \in NbrPosition
               /\ MagSqOf(a, b) = 0 => pos = "FAR"
               /\ MagSqOf(a, b) # 0 /\ Opposite(a, b, thr) => pos = "OPP"
               /\ MagSqOf(a, b) # 0 /\ ~Opposite(a, b, thr) /\ NearRightAngle(a, b, thr)
                     => /\ pos = (IF (rht /\ CrossOf(a, b) < 0) \/ (~rht /\ CrossOf(a, b) > 0)
                                  THEN "NEAR" ELSE "FAR")
                        /\ CrossOf(a, b) # 0
                              => /\ pos # PositionOf(a, b, thr, ~rht)
                                 /\ PositionOf(a, b, thr, ~rht) \in {"NEAR", "FAR"}
               /\ MagSqOf(a, b) # 0 /\ ~Opposite(a, b, thr) /\ ~NearRightAngle(a, b, thr)
                     => pos = "FAR"

\* Legs at 135 degrees under threshold 60 (both tests hold, OPP wins) and a
\* pair in the right-angle region decided NEAR by its cross product, in one node
C27_Witness ==
    /\ legs # None
    /\ leg_params.angle_threshold = 60
    /\ \E i \in 1..Len(legs[1]) : \E j \in 1..Len(legs[1]) :
          /\ MagSqOf(legs[1][i], legs[1][j]) # 0
          /\ Opposite(legs[1][i], legs[1][j], 60)
          /\ NearRightAngle(legs[1][i], legs[1][j], 60)
          /\ PositionOf(legs[1][i], legs[1][j], 60, leg_params.right_lane_drive) = "OPP"
    /\ \E i \in 1..Len(legs[1]) : \E j \in 1..Len(legs[1]) :
          /\ MagSqOf(legs[1][i], legs[1][j]) # 0
          /\ ~Opposite(legs[1][i], legs[1][j], 60)
          /\ PositionOf(legs[1][i], legs[1][j], 60, leg_params.right_lane_drive) = "NEAR"

PairTallies(a, b) ==
    count_pair_interaction(NodeXY, a, b, junc_conflict_classifier,
                           leg_params.angle_threshold, leg_params.right_lane_drive)

\* C29: for any two legs of the node towards different neighbours, both with
\* known movement sets, counting the pair as (A, B) adds the same tallies per
\* conflict type as counting it as (B, A), under the default rule table, at
\* every angle between the legs.
C29_CountsIndependentOfLegOrder ==
    legs # None =>
        \A i \in 1..Len(legs[1]) : \A j \in 1..Len(legs[1]) :
            (/\ legs[1][i].in_turns # None
             /\ legs[1][j].in_turns # None
             /\ legs[1][i].nbr_id # legs[1][j].nbr_id
             /\ MagSqOf(legs[1][i], legs[1][j]) # 0)
                => PairTallies(legs[1][i], legs[1][j]) = PairTallies(legs[1][j], legs[1][i])

\* =========================================================================
\* Claims about lane counts and edge widths (SpecLanes)
\* =========================================================================
Side == IF edge_data.reversed THEN "backward" ELSE "forward"

\* The lane segments of a turn tag: the |-separated lanes, or the list's items
Segments(tag) == IF tag.kind = "list" THEN Len(tag.items) ELSE Len(Split(tag.toks, "|"))

\* The count a lane-count tag states: its value, the first element of a list
Stated(tag) ==
    IF tag.kind = "list"
    THEN (IF tag.items = <<>> THEN None ELSE IntOf(tag.items[1]))
    ELSE IF tag.kind = "str" THEN IntOf(tag.toks)
    ELSE None

\* C26: when the direction's turn tag is present, the lane count is the
\* number of lane segments of that tag, whatever lane-count tag exists;
\* otherwise it is the count the directional lane-count tag states (first
\* element for a list), flagged as an estimate; otherwise it is 1, flagged as
\* an estimate.
C26_LaneCountPrecedence ==
    parsed_lanes # None =>
        LET r == parsed_lanes[1]
            turn_tag == edge_data.turn_lanes[Side]
            lanes_val == edge_data.lanes[Side]
        IN IF ~Falsy(turn_tag) THEN r.num_lanes = Segments(turn_tag)
           ELSE IF lanes_val.kind # "absent"
           THEN Stated(lanes_val) # None
                   => r.num_lanes = Stated(lanes_val)[1] /\ r.estimate
           ELSE r.num_lanes = 1 /\ r.estimate

\* The explicit integer lane tag, when it is one and >= 1
ExplicitLanes ==
    IF edge_data.lanes_tag.kind = "str" /\ Stated(edge_data.lanes_tag) # None
       /\ Stated(edge_data.lanes_tag)[1] >= 1
    THEN Stated(edge_data.lanes_tag) ELSE None

\* The lane parser's count, when it is >= 1
ParserLanes ==
    IF _parse_lane_data(edge_data).num_lanes >= 1
    THEN Some(_parse_lane_data(edge_data).num_lanes) ELSE None

\* The first element of a list-valued lane tag, when it is a number >= 1
FirstOfLanes ==
    IF edge_data.lanes_tag.kind = "list" /\ Stated(edge_data.lanes_tag) # None
       /\ Stated(edge_data.lanes_tag)[1] >= 1
    THEN Stated(edge_data.lanes_tag) ELSE None

FirstKnown(options) ==
    LET known == {i \in 1..Len(options) : options[i] # None}
    IN options[CHOOSE i \in known : \A j \in known : i <= j][1]

WidthRule(lane_count) ==
    LET r == parsed_width[1] IN
    IF edge_data.width.kind # "absent"
    THEN r = [width |-> _convert_to_meters(edge_data.width), is_estimate |-> FALSE]
    ELSE IF edge_data.est_width.kind # "absent"
    THEN r = [width |-> _convert_to_meters(edge_data.est_width), is_estimate |-> TRUE]
    ELSE /\ r = [width |-> lane_count * default_lane_width, is_estimate |-> TRUE]
         /\ lane_count >= 1

\* C28 as stated: explicit width tag (is_estimate false), else estimated-width
\* tag (is_estimate true), else lane_count x default_lane_width (is_estimate
\* true) with lane_count the explicit integer lane tag if >= 1, else the
\* lane-parser count, else the first element of a list-valued lane tag, else
\* 1; the lane count used is >= 1.
C28_WidthPrecedenceAsStated ==
    parsed_width # None =>
        WidthRule(FirstKnown(<<ExplicitLanes, ParserLanes, FirstOfLanes, Some(1)>>))

\* C28: the same precedence, where the first element of a list-valued lane
\* tag is used only when the lane parser flagged its own count as an estimate.
C28_WidthPrecedence ==
    parsed_width # None =>
        WidthRule(FirstKnown(<<ExplicitLanes, ParserLanes,
                               IF _parse_lane_data(edge_data).estimate
                               THEN FirstOfLanes ELSE None,
                               Some(1)>>))

\* The lane-derived case where only the list-valued lane tag gives a count:
\* the parser's count is 0 and flagged as an estimate
C28_Witness ==
    /\ parsed_width # None
    /\ edge_data.width.kind = "absent"
    /\ edge_data.est_width.kind = "absent"
    /\ ExplicitLanes = None
    /\ ParserLanes = None
    /\ _parse_lane_data(edge_data).estimate
    /\ FirstOfLanes # None
    /\ parsed_width[1].width = 2 * default_lane_width

\* =========================================================================
\* Claims about a session of /query and /junction requests (SpecSession)
\* =========================================================================
JunctionFeaturesOf(d) ==
    {i \in 1..Len(db_network_feature[d].features) :
        db_network_feature[d].features[i].feature_type = "junction"}

\* C30: whatever /query requests (failing ones included) and /junction runs
\* came before, each network_feature document holds at most one feature of
\* type junction.
C30_OneJunctionFeaturePerNode ==
    \A d \in 1..Len(db_network_feature) : Cardinality(JunctionFeaturesOf(d)) <= 1

====
